---- MODULE Spec2Model ----
(***************************************************************************)
(* A model of teditor: the file index and lazy tree (src/src/search.rs),   *)
(* the main loop with its three channels (src/src/app.rs) and the editor   *)
(* buffer it reloads (src/src/editor.rs).                                  *)
(*                                                                         *)
(* Paths are sequences of components and a component is a sequence of      *)
(* one-character strings, so that the dot prefix, the case folding and the *)
(* byte order the code relies on are computed and not assumed.             *)
(***************************************************************************)
EXTENDS Integers, Sequences, FiniteSets, TLC

VARIABLES
    fs,                      \* the directory tree under the root: path -> "none" | "file" | "dir"
    disk,                    \* content on disk of the file the editor has open
    search,                  \* App::search, the FileSearch record
    editor,                  \* App::editor, None or the Editor record
    mode,                    \* App::mode
    search_input,            \* App::search_input
    selected_index,          \* App::selected_index
    should_quit,             \* App::should_quit
    status_message,          \* App::status_message
    file_changed_externally, \* App::file_changed_externally
    create_active,           \* App::create_active
    watcher_rx,              \* App::watcher_rx: None or the queued per-file signals
    root_watcher_rx,         \* App::root_watcher_rx: None or the queued root signals
    index_rx,                \* App::index_rx: None or Some("rx")
    index_chan,              \* the completion channel: messages queued, sender alive or dropped
    worker,                  \* the background scan thread's position
    worker_result,           \* what the thread's collect_files returned, until it is sent
    last_tick_elapsed,       \* run(): last_tick.elapsed(), saturated at tick_rate
    last_root_refresh_elapsed, \* run(): last_root_refresh.elapsed(), saturated at refresh_interval
    root_refresh_pending,    \* run(): root_refresh_pending
    pc,                      \* run(): position inside the loop body
    hist                     \* history of the run, read by the properties only

vars == <<fs, disk, search, editor, mode, search_input, selected_index, should_quit,
          status_message, file_changed_externally, create_active, watcher_rx,
          root_watcher_rx, index_rx, index_chan, worker, worker_result, last_tick_elapsed,
          last_root_refresh_elapsed, root_refresh_pending, pc, hist>>

\* Option<T>: None, or Some(x) with x read as o[1]
None == <<>>
Some(x) == <<x>>

-----------------------------------------------------------------------------
(* Characters, names and paths *)

\* Byte value of the characters the model uses (OsStr comparison is bytewise).
CharCode(c) ==
    CASE c = "." -> 46 [] c = "/" -> 47 [] c = "B" -> 66
      [] c = "a" -> 97 [] c = "b" -> 98 [] c = "c" -> 99 [] c = "g" -> 103
      [] c = "h" -> 104 [] c = "i" -> 105 [] c = "t" -> 116 [] c = "x" -> 120
      [] OTHER -> 0

\* char::to_lowercase on the characters the model uses.
LowerChar(c) == IF c = "B" THEN "b" ELSE c

to_lowercase(s) == [i \in 1..Len(s) |-> LowerChar(s[i])]

\* Lexicographic order of two character sequences by byte value.
RECURSIVE StrLess(_, _)
StrLess(s, t) ==
    IF t = <<>> THEN FALSE
    ELSE IF s = <<>> THEN TRUE
    ELSE IF CharCode(Head(s)) # CharCode(Head(t))
         THEN CharCode(Head(s)) < CharCode(Head(t))
         ELSE StrLess(Tail(s), Tail(t))

\* Ord for Path: componentwise, each component bytewise.
RECURSIVE PathLess(_, _)
PathLess(p, q) ==
    IF q = <<>> THEN FALSE
    ELSE IF p = <<>> THEN TRUE
    ELSE IF Head(p) # Head(q) THEN StrLess(Head(p), Head(q))
         ELSE PathLess(Tail(p), Tail(q))

NameA   == <<"a">>
NameB   == <<"b">>
NameC   == <<"c">>
NameX   == <<"x">>
NameDotH == <<".", "h">>
NameGit == <<".", "g", "i", "t">>

RootPath == <<>>            \* PathBuf::new(), the root relative to itself
PA    == <<NameA>>
PAB   == <<NameA, NameB>>
PAH   == <<NameA, NameDotH>>
PAHX  == <<NameA, NameDotH, NameX>>
PB    == <<NameB>>
PGit  == <<NameGit>>
PGitC == <<NameGit, NameC>>

\* The paths that may exist under the root, and the kinds each may have.
Universe == {PA, PAB, PAH, PAHX, PB, PGit, PGitC}
CanBeDir == {PA, PAH, PGit}
CanBeFile == {PA, PAB, PAHX, PB, PGitC}

Parent(p) == SubSeq(p, 1, Len(p) - 1)
FileName(p) == p[Len(p)]
IsPrefix(p, q) == Len(p) <= Len(q) /\ SubSeq(q, 1, Len(p)) = p
IsProperPrefix(p, q) == Len(p) < Len(q) /\ SubSeq(q, 1, Len(p)) = p

IsHiddenName(n) == n # <<>> /\ Head(n) = "."
HasDotComponent(p) == \E i \in 1..Len(p) : IsHiddenName(p[i])
HasGitComponent(p) == \E i \in 1..Len(p) : p[i] = NameGit

\* Path::to_string_lossy: the components joined by "/".
RECURSIVE PathStr(_)
PathStr(p) ==
    IF p = <<>> THEN <<>>
    ELSE IF Len(p) = 1 THEN Head(p)
    ELSE Head(p) \o <<"/">> \o PathStr(Tail(p))

-----------------------------------------------------------------------------
(* The filesystem *)

KindOf(f, p) == IF p = RootPath THEN "dir" ELSE IF p \in DOMAIN f THEN f[p] ELSE "none"

\* A tree: whatever exists lies in a directory that exists.
WellFormedFs(f) ==
    \A p \in Universe : f[p] # "none" => KindOf(f, Parent(p)) = "dir"

-----------------------------------------------------------------------------
(* DirectoryWalker: ignore::WalkBuilder as FileSearch configures it *)

\* filter_entry(|e| e.file_name() != ".git") and hidden(!show_hidden), applied by
\* the walker to one entry below the directory the walk starts from. No ignore
\* file exists in the modelled trees, so git_ignore and git_exclude skip nothing.
EntryPasses(name, show_hidden) ==
    /\ name # NameGit
    /\ (show_hidden \/ ~IsHiddenName(name))

\* The entries of depth >= 1 a walk started at walk_root yields, as paths relative
\* to the application root. The walker never applies the hidden filter to the
\* directory it starts from, only the filter_entry predicate; a start that is
\* missing or is a plain file yields nothing below itself (the error of a
\* missing start is dropped by filter_map(|e| e.ok())).
WalkBelow(f, walk_root, show_hidden) ==
    IF KindOf(f, walk_root) # "dir" \/ (walk_root # RootPath /\ FileName(walk_root) = NameGit)
    THEN {}
    ELSE {p \in Universe :
            /\ IsProperPrefix(walk_root, p)
            /\ f[p] # "none"
            /\ \A i \in (Len(walk_root) + 1)..Len(p) : EntryPasses(p[i], show_hidden)}

\* Vec<PathBuf>::sort of a duplicate-free collection.
RECURSIVE SortPaths(_)
SortPaths(S) ==
    IF S = {} THEN <<>>
    ELSE LET m == CHOOSE x \in S : \A y \in S \ {x} : PathLess(x, y)
         IN  <<m>> \o SortPaths(S \ {m})

collect_files(f, show_hidden) ==
    SortPaths({p \in WalkBelow(f, RootPath, show_hidden) : f[p] = "file"})

\* The Result of collect_files when the directories in unreadable cannot be
\* listed: the walker yields an Err item for each of them, filter_map(|e| e.ok())
\* drops the item, and the function ends in Ok(files) whatever was dropped.
collect_files_result(f, show_hidden, unreadable) ==
    [ok |-> TRUE,
     files |-> SortPaths({p \in WalkBelow(f, RootPath, show_hidden) :
                            /\ f[p] = "file"
                            /\ \A d \in unreadable : ~IsProperPrefix(d, p)})]

\* The sort key of one listed child: (0 for a directory, 1 otherwise; lowercased name).
ChildLess(f, p, q) ==
    LET kp == IF f[p] = "dir" THEN 0 ELSE 1
        kq == IF f[q] = "dir" THEN 0 ELSE 1
    IN  \/ kp < kq
        \/ kp = kq /\ StrLess(to_lowercase(FileName(p)), to_lowercase(FileName(q)))

\* children.sort_by(prefix, then name). No two children of one directory of the
\* modelled trees share a key, so the order the walker lists them in cannot show.
RECURSIVE SortChildren(_, _)
SortChildren(f, S) ==
    IF S = {} THEN <<>>
    ELSE LET m == CHOOSE x \in S : \A y \in S \ {x} : ChildLess(f, x, y)
         IN  <<m>> \o SortChildren(f, S \ {m})

\* The single-level listing of reload_children: min_depth 1, max_depth 1.
ListChildren(f, path, show_hidden) ==
    {p \in WalkBelow(f, path, show_hidden) : Len(p) = Len(path) + 1}

-----------------------------------------------------------------------------
(* LazyTreeIndex: the TreeNode map of FileSearch *)

TreeNode(is_dir, children, children_loaded) ==
    [is_dir |-> is_dir, children |-> children, children_loaded |-> children_loaded]

Entry(path, is_dir, depth) == [path |-> path, is_dir |-> is_dir, depth |-> depth]

\* HashMap::insert(k, v), which replaces the value of an existing key
insert_replacing(nodes, k, v) == [x \in DOMAIN nodes \cup {k} |-> IF x = k THEN v ELSE nodes[x]]

\* HashMap::entry(k).or_insert(v)
OrInsert(nodes, k, v) == IF k \in DOMAIN nodes THEN nodes ELSE nodes @@ (k :> v)

RECURSIVE OrInsertChildren(_, _, _)
OrInsertChildren(nodes, f, listed) ==
    IF listed = <<>> THEN nodes
    ELSE LET c == Head(listed)
             d == f[c] = "dir"
         IN  OrInsertChildren(OrInsert(nodes, c, TreeNode(d, <<>>, ~d)), f, Tail(listed))

\* reload_children that stores the listing without marking the node loaded
reload_children_not_marked(nodes, f, path, show_hidden) ==
    LET child_paths == SortChildren(f, ListChildren(f, path, show_hidden))
        inserted == OrInsertChildren(nodes, f, child_paths)
        with_path == OrInsert(inserted, path, TreeNode(TRUE, <<>>, FALSE))
    IN  [with_path EXCEPT ![path] = TreeNode(TRUE, child_paths, FALSE)]

\* FileSearch::reload_children on the TreeNode map.
reload_children(nodes, f, path, show_hidden) ==
    LET child_paths == SortChildren(f, ListChildren(f, path, show_hidden))
        inserted == OrInsertChildren(nodes, f, child_paths)
        with_path == OrInsert(inserted, path, TreeNode(TRUE, <<>>, FALSE))
    IN  [with_path EXCEPT ![path] = TreeNode(TRUE, child_paths, TRUE)]

\* load_children without the children_loaded test
load_children_always(nodes, f, path, show_hidden) ==
    reload_children(nodes, f, path, show_hidden)

\* FileSearch::load_children
load_children(nodes, f, path, show_hidden) ==
    LET needs_load == IF path \in DOMAIN nodes THEN ~nodes[path].children_loaded ELSE TRUE
    IN  IF needs_load THEN reload_children(nodes, f, path, show_hidden) ELSE nodes

RECURSIVE walk_tree(_, _, _, _)
RECURSIVE walk_children(_, _, _, _)

\* walk_tree descending into every directory, expanded or not
walk_tree_ignore_expanded(nodes, expanded, path, depth) ==
    IF path \notin DOMAIN nodes THEN <<>>
    ELSE <<Entry(path, nodes[path].is_dir, depth)>>
         \o (IF nodes[path].is_dir
             THEN walk_children(nodes, expanded, nodes[path].children, depth + 1)
             ELSE <<>>)

\* FileSearch::walk_tree, returning what it pushes on tree_visible.
walk_tree(nodes, expanded, path, depth) ==
    IF path \notin DOMAIN nodes THEN <<>>
    ELSE <<Entry(path, nodes[path].is_dir, depth)>>
         \o (IF nodes[path].is_dir /\ path \in expanded
             THEN walk_children(nodes, expanded, nodes[path].children, depth + 1)
             ELSE <<>>)

walk_children(nodes, expanded, children, depth) ==
    IF children = <<>> THEN <<>>
    ELSE walk_tree(nodes, expanded, Head(children), depth)
         \o walk_children(nodes, expanded, Tail(children), depth)

\* rebuild_tree_visible starting at the root node itself, which gets a row
rebuild_tree_visible_with_root(nodes, expanded) ==
    walk_tree(nodes, expanded, RootPath, 0)

\* rebuild_tree_visible that numbers the root's children from depth 1
rebuild_tree_visible_from_one(nodes, expanded) ==
    IF RootPath \notin DOMAIN nodes THEN <<>>
    ELSE walk_children(nodes, expanded, nodes[RootPath].children, 1)

\* FileSearch::rebuild_tree_visible
rebuild_tree_visible(nodes, expanded) ==
    IF RootPath \notin DOMAIN nodes THEN <<>>
    ELSE walk_children(nodes, expanded, nodes[RootPath].children, 0)

-----------------------------------------------------------------------------
(* FuzzyRanker: nucleo::Matcher::fuzzy_match as update_query calls it *)

\* Leftmost positions at which needle occurs in hay as a subsequence, from
\* position from on; <<0>> when it does not occur.
RECURSIVE MatchPositions(_, _, _)
MatchPositions(hay, needle, from) ==
    IF needle = <<>> THEN <<>>
    ELSE IF from > Len(hay) THEN <<0>>
    ELSE IF hay[from] = Head(needle)
         THEN LET rest == MatchPositions(hay, Tail(needle), from + 1)
              IN  IF rest = <<0>> THEN <<0>> ELSE <<from>> \o rest
         ELSE MatchPositions(hay, needle, from + 1)

\* The score of one matched character: 16 for the match; a boundary bonus of 10
\* at the start of the haystack, 9 right after a path separator and 8 right
\* after a dot, doubled for the first character of the needle; a bonus of 4 when
\* it continues the previous match; a penalty of 3 + (gap - 1) for a gap.
CharScore(hay, pos, prev) ==
    16
    + (IF prev = 0 THEN 2 ELSE 1)
      * (IF pos = 1 THEN 10 ELSE IF hay[pos - 1] = "/" THEN 9
         ELSE IF hay[pos - 1] = "." THEN 8 ELSE 0)
    + (IF prev # 0 /\ pos = prev + 1 THEN 4 ELSE 0)
    - (IF prev # 0 /\ pos > prev + 1 THEN 3 + (pos - prev - 2) ELSE 0)

RECURSIVE SumScore(_, _, _)
SumScore(hay, positions, prev) ==
    IF positions = <<>> THEN 0
    ELSE CharScore(hay, Head(positions), prev)
         + SumScore(hay, Tail(positions), Head(positions))

\* Matcher::fuzzy_match with Config::DEFAULT: None when the needle is no
\* subsequence of the case-folded haystack, otherwise Some(score).
fuzzy_match(haystack, needle) ==
    LET hay == to_lowercase(haystack)
        positions == MatchPositions(hay, needle, 1)
    IN  IF positions = <<0>> THEN None
        ELSE LET s == SumScore(hay, positions, 0) IN Some(IF s < 0 THEN 0 ELSE s)

\* The (index, score) pairs of update_query's loop, in index order.
RECURSIVE ScoreFiles(_, _, _)
ScoreFiles(files, query, idx) ==
    IF idx > Len(files) THEN <<>>
    ELSE LET score == fuzzy_match(PathStr(files[idx]), query)
         IN  (IF score = None THEN <<>> ELSE <<(<<idx - 1, score[1]>>)>>)
             \o ScoreFiles(files, query, idx + 1)

\* Insertion of one pair into a sequence sorted by descending score, behind
\* every pair of an equal score (sort_by is stable).
RECURSIVE InsertByScore(_, _)
InsertByScore(sorted, m) ==
    IF sorted = <<>> THEN <<m>>
    ELSE IF Head(sorted)[2] >= m[2] THEN <<Head(sorted)>> \o InsertByScore(Tail(sorted), m)
    ELSE <<m>> \o sorted

RECURSIVE SortByScoreFrom(_, _)
SortByScoreFrom(sorted, rest) ==
    IF rest = <<>> THEN sorted
    ELSE SortByScoreFrom(InsertByScore(sorted, Head(rest)), Tail(rest))

\* update_query without the sort: the pairs in index order
sort_by_score_none(scored) == scored

\* scored.sort_by(|a, b| b.1.cmp(&a.1))
sort_by_score(scored) == SortByScoreFrom(<<>>, scored)

\* files.iter().enumerate().map(|(i, _)| (i, 0)).collect()
IdentityMatches(files) == [i \in 1..Len(files) |-> <<i - 1, 0>>]

-----------------------------------------------------------------------------
(* FileSearch *)

\* FileSearch::init_tree_root on a fresh record
init_tree_root(s, f) ==
    LET nodes == reload_children((RootPath :> TreeNode(TRUE, <<>>, FALSE)), f, RootPath,
                                 s.show_hidden)
    IN  [s EXCEPT !.tree_nodes = nodes,
                  !.tree_visible = rebuild_tree_visible(nodes, s.expanded)]

\* FileSearch::new_deferred
new_deferred(f) ==
    init_tree_root([files |-> <<>>, expanded |-> {RootPath}, matches |-> <<>>,
                    search_active |-> FALSE, show_hidden |-> TRUE, indexing |-> TRUE,
                    tree_nodes |-> <<>>, tree_visible |-> <<>>], f)

RECURSIVE ReloadAll(_, _, _, _)
ReloadAll(nodes, f, paths, show_hidden) ==
    IF paths = <<>> THEN nodes
    ELSE ReloadAll(reload_children(nodes, f, Head(paths), show_hidden), f, Tail(paths),
                   show_hidden)

\* refresh_tree_for_expanded reloading every loaded directory node, expanded or not
refresh_tree_reload_loaded(s, f) ==
    LET loaded == {p \in DOMAIN s.tree_nodes :
                     s.tree_nodes[p].is_dir /\ s.tree_nodes[p].children_loaded}
        nodes == ReloadAll(s.tree_nodes, f,
                           <<RootPath>> \o SortPaths((s.expanded \cup loaded) \ {RootPath}),
                           s.show_hidden)
    IN  [s EXCEPT !.tree_nodes = nodes,
                  !.tree_visible = rebuild_tree_visible(nodes, s.expanded)]

\* refresh_tree_for_expanded that forgets expanded paths that are no longer directories
refresh_tree_pruning(s, f) ==
    LET expanded == {p \in s.expanded : p = RootPath \/ f[p] = "dir"}
        nodes == ReloadAll(s.tree_nodes, f,
                           <<RootPath>> \o SortPaths(expanded \ {RootPath}), s.show_hidden)
    IN  [s EXCEPT !.expanded = expanded, !.tree_nodes = nodes,
                  !.tree_visible = rebuild_tree_visible(nodes, expanded)]

\* FileSearch::refresh_tree_for_expanded. The HashSet is iterated in an order
\* the code does not fix; the reloads of distinct paths commute, each writing its
\* own node and or_insert-ing nodes for its own children only.
refresh_tree_for_expanded(s, f) ==
    LET nodes == ReloadAll(s.tree_nodes, f,
                           <<RootPath>> \o SortPaths(s.expanded \ {RootPath}), s.show_hidden)
    IN  [s EXCEPT !.tree_nodes = nodes,
                  !.tree_visible = rebuild_tree_visible(nodes, s.expanded)]

\* refresh that marks the index as being built
refresh_marks_indexing(s, f) ==
    LET files == collect_files(f, s.show_hidden)
    IN  refresh_tree_for_expanded(
            [s EXCEPT !.files = files, !.matches = IdentityMatches(files),
                      !.indexing = TRUE], f)

\* FileSearch::refresh (collect_files returns Ok on every path through it)
refresh(s, f) ==
    LET files == collect_files(f, s.show_hidden)
    IN  refresh_tree_for_expanded(
            [s EXCEPT !.files = files, !.matches = IdentityMatches(files),
                      !.indexing = FALSE], f)

\* FileSearch::toggle_hidden
toggle_hidden(s, f) == refresh([s EXCEPT !.show_hidden = ~s.show_hidden], f)

\* apply_index that replaces the index and keeps the match list
apply_index_keeps_matches(s, files) ==
    [s EXCEPT !.files = files, !.indexing = FALSE]

\* apply_index that appends the result to the index it finds
apply_index_appending(s, files) ==
    [s EXCEPT !.files = s.files \o files, !.matches = IdentityMatches(s.files \o files),
              !.indexing = FALSE]

\* FileSearch::apply_index
apply_index(s, files) ==
    [s EXCEPT !.files = files, !.matches = IdentityMatches(files), !.indexing = FALSE]

\* toggle_expanded that lists the directory on every expansion
toggle_expanded_relisting(s, f, path) ==
    LET expanded == IF path \in s.expanded THEN s.expanded \ {path}
                    ELSE s.expanded \cup {path}
        nodes == IF path \in s.expanded THEN s.tree_nodes
                 ELSE reload_children(s.tree_nodes, f, path, s.show_hidden)
    IN  [s EXCEPT !.expanded = expanded, !.tree_nodes = nodes,
                  !.tree_visible = rebuild_tree_visible(nodes, expanded)]

\* toggle_expanded without the load_children call
toggle_expanded_no_load(s, f, path) ==
    LET expanded == IF path \in s.expanded THEN s.expanded \ {path}
                    ELSE s.expanded \cup {path}
    IN  [s EXCEPT !.expanded = expanded,
                  !.tree_visible = rebuild_tree_visible(s.tree_nodes, expanded)]

\* FileSearch::toggle_expanded
toggle_expanded(s, f, path) ==
    LET expanded == IF path \in s.expanded THEN s.expanded \ {path}
                    ELSE s.expanded \cup {path}
        nodes == IF path \in s.expanded THEN s.tree_nodes
                 ELSE load_children(s.tree_nodes, f, path, s.show_hidden)
    IN  [s EXCEPT !.expanded = expanded, !.tree_nodes = nodes,
                  !.tree_visible = rebuild_tree_visible(nodes, expanded)]

\* update_query that leaves the match list alone when the query is empty
update_query_keeps_on_empty(s, query) ==
    [s EXCEPT !.search_active = (query # <<>>),
              !.matches = IF query = <<>> THEN s.matches
                          ELSE sort_by_score(ScoreFiles(s.files, query, 1))]

\* FileSearch::update_query
update_query(s, query) ==
    [s EXCEPT !.search_active = (query # <<>>),
              !.matches = IF query = <<>> THEN IdentityMatches(s.files)
                          ELSE sort_by_score(ScoreFiles(s.files, query, 1))]

\* FileSearch::match_count
match_count(s) == IF s.search_active THEN Len(s.matches) ELSE Len(s.tree_visible)

\* FileSearch::get_visible_entry / visible_entry_at
get_visible_entry(s, index) ==
    IF index + 1 <= Len(s.tree_visible) THEN Some(s.tree_visible[index + 1]) ELSE None

-----------------------------------------------------------------------------
(* Editor: the buffer of the open file (src/src/editor.rs) *)

\* str::lines: split at "\n"; a final line without a terminator counts, an
\* empty remainder after the last terminator does not.
RECURSIVE SplitLines(_, _)
SplitLines(content, cur) ==
    IF content = <<>> THEN (IF cur = <<>> THEN <<>> ELSE <<cur>>)
    ELSE IF Head(content) = "\n" THEN <<cur>> \o SplitLines(Tail(content), <<>>)
    ELSE SplitLines(Tail(content), Append(cur, Head(content)))

lines(content) == SplitLines(content, <<>>)

\* TextArea::new: an empty vector of lines becomes one empty line.
TextAreaNew(ls) == IF ls = <<>> THEN << <<>> >> ELSE ls

\* [String]::join("\n")
RECURSIVE join(_)
join(ls) ==
    IF ls = <<>> THEN <<>>
    ELSE IF Len(ls) = 1 THEN Head(ls)
    ELSE Head(ls) \o <<"\n">> \o join(Tail(ls))

\* What the files the editor opens may hold.
Contents == {<<>>, <<"a">>, <<"a", "\n">>}

\* Longest line the modelled user types.
MaxLine == 2

\* The keys handle_input forwards to the text area: a character, Backspace and
\* a cursor key. The cursor is kept at the end of the last line.
EditKeys == {"Char", "Backspace", "Left"}

TextAreaInput(ls, key) ==
    LET n == Len(ls)
        last == ls[n]
    IN  CASE key = "Char" -> IF Len(last) < MaxLine THEN [ls EXCEPT ![n] = Append(last, "a")]
                             ELSE ls
          [] key = "Backspace" ->
                IF last # <<>> THEN [ls EXCEPT ![n] = SubSeq(last, 1, Len(last) - 1)]
                ELSE IF n > 1 THEN SubSeq(ls, 1, n - 1)
                ELSE ls
          [] OTHER -> ls

\* Editor::open, given what fs::read_to_string returned
EditorOpen(path, content) ==
    [path |-> path, textarea |-> TextAreaNew(lines(content)), modified |-> FALSE,
     original_content |-> content]

\* Editor::handle_input
handle_input(e, key) ==
    LET ta == TextAreaInput(e.textarea, key)
    IN  [e EXCEPT !.textarea = ta, !.modified = (join(ta) # e.original_content)]

\* Editor::reload, given what fs::read_to_string returned
reload(e, content) ==
    [e EXCEPT !.textarea = TextAreaNew(lines(content)), !.original_content = content,
              !.modified = FALSE]

\* Editor::save: the record after a successful fs::write of join(textarea)
save(e) == [e EXCEPT !.original_content = join(e.textarea), !.modified = FALSE]

\* Editor::is_modified
is_modified(e) == e.modified

\* fs::read_to_string(path) succeeds on a plain file only.
Readable(f, path) == KindOf(f, path) = "file"

\* fs::write(path) succeeds on a plain file, and creates one in an existing directory.
Writable(f, path) ==
    \/ KindOf(f, path) = "file"
    \/ KindOf(f, path) = "none" /\ KindOf(f, Parent(path)) = "dir"

-----------------------------------------------------------------------------
(* App: construction, the channels and their producers (src/src/app.rs) *)

\* run(): tick_rate and refresh_interval, in milliseconds
tick_rate == 100
refresh_interval == 300

\* Granularity of the modelled clock, in milliseconds.
TimeStep == 100

\* Most signals one watcher channel holds unread in the modelled runs.
MaxSignals == 2

\* Longest search_input the modelled user types, and the characters typed.
MaxQuery == 1
QueryChars == {"a", "b"}

Min(a, b) == IF a < b THEN a ELSE b

\* usize::saturating_sub(1)
saturating_sub1(n) == IF n = 0 THEN 0 ELSE n - 1

\* The trees the application may be started on.
InitialTrees ==
    {[p \in Universe |-> CASE p \in {PA, PAH, PGit} -> "dir"
                           [] p \in {PAB, PAHX, PGitC} -> "file"
                           [] OTHER -> k] : k \in {"none", "file"}}

InitHist(timed) ==
    [timed |-> timed,           \* whether this run records the times and drops below
     owed |-> FALSE,            \* a root signal was sent and no rescan has started since
     unserved |-> FALSE,        \* a root signal was drained and no tick rescan has run since
     unserved_age |-> refresh_interval,  \* time since the youngest such signal was sent
     unserved_near |-> FALSE,
     unserved_n |-> 0,          \* how many such signals, up to MaxSignals
     chan_age |-> refresh_interval,      \* time since the youngest queued root signal was sent
     chan_near |-> FALSE,       \* a queued signal was sent < refresh_interval after a signal
                                \* that a tick rescan had already served, or that the next serves
     served_age |-> refresh_interval,    \* time since the youngest served signal was sent
     batch_near |-> FALSE,      \* the latest tick rescan served such a signal
     served_n |-> 0,            \* how many signals the latest tick rescan served
     discarded |-> FALSE,       \* a per-file channel was dropped with a signal unread
     results_sent |-> 0,        \* results the worker has put on the completion channel
     completions |-> 0]         \* completions (result or disconnect) the driver has consumed

\* App::new followed by the locals run() sets up before its loop. setup_root_watcher
\* may fail, which leaves root_watcher_rx None and a status message.
InitWith(trees, watcher_oks, timed) ==
    /\ fs \in trees
    /\ disk = <<>>
    /\ search = new_deferred(fs)
    /\ editor = None
    /\ mode = "Search"
    /\ search_input = <<>>
    /\ selected_index = 0
    /\ should_quit = FALSE
    /\ file_changed_externally = FALSE
    /\ create_active = FALSE
    /\ watcher_rx = None
    /\ \E ok \in watcher_oks :
          /\ root_watcher_rx = IF ok THEN Some(0) ELSE None
          /\ status_message = IF ok THEN Some("Indexing...") ELSE Some("Root watcher failed")
    /\ index_rx = Some("rx")
    /\ index_chan = [msgs |-> <<>>, sender |-> TRUE]
    /\ worker = "scanning"
    /\ worker_result = None
    /\ last_tick_elapsed = 0
    /\ last_root_refresh_elapsed = 0
    /\ root_refresh_pending = FALSE
    /\ pc = "poll"
    /\ hist = InitHist(timed)

Init == InitWith(InitialTrees, BOOLEAN, FALSE)

\* tx.send(()) of the root watcher callback; an unbounded channel never blocks.
\* Without a root watcher nothing is sent.
RootSend(h) ==
    IF root_watcher_rx = None THEN h
    ELSE [h EXCEPT !.owed = TRUE, !.chan_age = IF h.timed THEN 0 ELSE @,
                   !.chan_near = h.chan_near \/ h.served_age < refresh_interval]

\* The channels are unbounded and only their emptiness is ever read (each drain
\* empties them), so the count of queued signals is kept up to MaxSignals.
Queued(rx) == IF rx = None THEN None ELSE Some(Min(rx[1] + 1, MaxSignals))

\* The root watcher callback setting root_refresh_pending itself instead of sending
FsChanged_sets_pending ==
    /\ root_refresh_pending' = TRUE
    /\ hist' = RootSend(hist)
    /\ UNCHANGED <<disk, search, editor, mode, search_input, selected_index, should_quit,
                   status_message, file_changed_externally, create_active, watcher_rx,
                   root_watcher_rx, index_rx, index_chan, worker, worker_result,
                   last_tick_elapsed, last_root_refresh_elapsed, pc>>

\* What every structural change by another process leaves alone. The recursive
\* root watcher forwards each change as one signal.
FsChanged ==
    /\ root_watcher_rx' = Queued(root_watcher_rx)
    /\ hist' = RootSend(hist)
    /\ UNCHANGED <<disk, search, editor, mode, search_input, selected_index, should_quit,
                   status_message, file_changed_externally, create_active, watcher_rx,
                   index_rx, index_chan, worker, worker_result, last_tick_elapsed,
                   last_root_refresh_elapsed, root_refresh_pending, pc>>

\* Another process creates a plain file at one of paths.
FsCreateFile(paths) ==
    /\ \E p \in paths \cap CanBeFile :
          /\ fs[p] = "none" /\ KindOf(fs, Parent(p)) = "dir"
          /\ fs' = [fs EXCEPT ![p] = "file"]
    /\ FsChanged

\* Another process creates a directory at one of paths.
FsCreateDir(paths) ==
    /\ \E p \in paths \cap CanBeDir :
          /\ fs[p] = "none" /\ KindOf(fs, Parent(p)) = "dir"
          /\ fs' = [fs EXCEPT ![p] = "dir"]
    /\ FsChanged

\* Another process removes a file or an empty directory at one of paths.
FsRemove(paths) ==
    /\ \E p \in paths :
          /\ fs[p] # "none"
          /\ \A q \in Universe : IsProperPrefix(p, q) => fs[q] = "none"
          /\ fs' = [fs EXCEPT ![p] = "none"]
    /\ FsChanged

\* Another process renames a plain file among paths.
FsRename(paths) ==
    /\ \E p \in paths, q \in paths \cap CanBeFile :
          /\ fs[p] = "file" /\ fs[q] = "none" /\ KindOf(fs, Parent(q)) = "dir"
          /\ fs' = [fs EXCEPT ![p] = "none", ![q] = "file"]
    /\ FsChanged

\* Another process rewrites the open file. The per-file watcher callback
\* forwards the Modify event when a watcher is attached.
DiskModify ==
    /\ editor # None
    /\ Readable(fs, editor[1].path)
    /\ \E c \in Contents \ {disk} : disk' = c
    /\ watcher_rx' = Queued(watcher_rx)
    /\ hist' = hist
    /\ UNCHANGED <<fs, search, editor, mode, search_input, selected_index, should_quit,
                   status_message, file_changed_externally, create_active,
                   root_watcher_rx, index_rx, index_chan, worker, worker_result, last_tick_elapsed,
                   last_root_refresh_elapsed, root_refresh_pending, pc>>

\* The thread App::new spawns, first statement: collect_files with the
\* show_hidden of construction (true). The walk reads the tree as it is now;
\* the result stays in the thread until it is sent.
WorkerScan ==
    /\ worker = "scanning"
    /\ worker' = "walked"
    /\ worker_result' = Some([ok |-> TRUE, files |-> collect_files(fs, TRUE)])
    /\ hist' = hist
    /\ UNCHANGED <<fs, disk, search, editor, mode, search_input, selected_index,
                   should_quit, status_message, file_changed_externally, create_active,
                   watcher_rx, root_watcher_rx, index_rx, index_chan, last_tick_elapsed,
                   last_root_refresh_elapsed, root_refresh_pending, pc>>

\* The other value of the Result collect_files may return: Err (the handler's
\* Ok(Err(e)) arm).
WorkerFail ==
    /\ worker = "scanning"
    /\ worker' = "walked"
    /\ worker_result' = Some([ok |-> FALSE, files |-> <<>>])
    /\ hist' = hist
    /\ UNCHANGED <<fs, disk, search, editor, mode, search_input, selected_index,
                   should_quit, status_message, file_changed_externally, create_active,
                   watcher_rx, root_watcher_rx, index_rx, index_chan, last_tick_elapsed,
                   last_root_refresh_elapsed, root_refresh_pending, pc>>

\* The thread's second statement: one send, and the sender is dropped with the
\* closure. Sending to a channel whose receiver is gone fails and is ignored.
WorkerSend ==
    /\ worker = "walked"
    /\ worker' = "done"
    /\ worker_result' = None
    /\ index_chan' = [msgs |-> IF index_rx = None THEN index_chan.msgs
                               ELSE Append(index_chan.msgs, worker_result[1]),
                      sender |-> FALSE]
    /\ hist' = [hist EXCEPT !.results_sent = @ + 1]
    /\ UNCHANGED <<fs, disk, search, editor, mode, search_input, selected_index,
                   should_quit, status_message, file_changed_externally, create_active,
                   watcher_rx, root_watcher_rx, index_rx, last_tick_elapsed,
                   last_root_refresh_elapsed, root_refresh_pending, pc>>

\* The thread panics before it sends: the sender is dropped with nothing queued
\* (the handler's Err(TryRecvError::Disconnected) arm).
WorkerPanic ==
    /\ worker = "scanning"
    /\ worker' = "panicked"
    /\ index_chan' = [index_chan EXCEPT !.sender = FALSE]
    /\ hist' = hist
    /\ UNCHANGED <<fs, disk, search, editor, mode, search_input, selected_index,
                   should_quit, status_message, file_changed_externally, create_active,
                   watcher_rx, root_watcher_rx, index_rx, worker_result, last_tick_elapsed,
                   last_root_refresh_elapsed, root_refresh_pending, pc>>

Age(a, cap) == Min(a + TimeStep, cap)
HistAge(a) == IF hist.timed THEN Age(a, refresh_interval) ELSE a

\* Time passes.
Advance ==
    /\ \/ last_tick_elapsed < tick_rate
       \/ last_root_refresh_elapsed < refresh_interval
       \/ hist.timed /\ hist.chan_age < refresh_interval
       \/ hist.timed /\ hist.unserved_age < refresh_interval
       \/ hist.timed /\ hist.served_age < refresh_interval
    /\ last_tick_elapsed' = Age(last_tick_elapsed, tick_rate)
    /\ last_root_refresh_elapsed' = Age(last_root_refresh_elapsed, refresh_interval)
    /\ hist' = [hist EXCEPT !.chan_age = HistAge(@), !.unserved_age = HistAge(@),
                             !.served_age = HistAge(@)]
    /\ UNCHANGED <<fs, disk, search, editor, mode, search_input, selected_index,
                   should_quit, status_message, file_changed_externally, create_active,
                   watcher_rx, root_watcher_rx, index_rx, index_chan, worker, worker_result,
                   root_refresh_pending, pc>>

-----------------------------------------------------------------------------
(* App: the event handlers *)

\* After an event is handled the loop body goes on to its tick test.
AfterEvent == IF last_tick_elapsed >= tick_rate THEN "file" ELSE "poll"

\* event::poll returned an event for the search view
SearchEvent == pc = "poll" /\ ~should_quit /\ mode = "Search"
\* event::poll returned an event for the editor view
EditEvent == pc = "poll" /\ ~should_quit /\ mode = "Edit"

\* refresh_search and check_indexing without their clamp
Clamp_none(s, sel) == sel

\* selected_index after the clamp of refresh_search and check_indexing
Clamp(s, sel) ==
    LET max == saturating_sub1(match_count(s)) IN IF sel > max THEN max ELSE sel

\* FileSearch::refresh followed by update_query, as refresh_search runs them
refresh_search(s, f, query) == update_query(refresh(s, f), query)

\* open_file that leaves the mode as it is
open_file_keeps_mode(path) ==
    IF ~Readable(fs, path)
    THEN /\ pc' = "error"
         /\ UNCHANGED <<disk, editor, mode, status_message, file_changed_externally,
                        watcher_rx>>
    ELSE /\ pc' = AfterEvent
         /\ \E c \in Contents :
               /\ disk' = c
               /\ editor' = Some(EditorOpen(path, c))
         /\ mode' = mode
         /\ file_changed_externally' = FALSE
         /\ \E ok \in BOOLEAN :
               /\ watcher_rx' = IF ok THEN Some(0) ELSE watcher_rx
               /\ status_message' = IF ok THEN Some("File watcher active")
                                     ELSE Some("Watcher failed")

\* App::open_file: Editor::open fails when the file cannot be read, and the
\* error leaves run(); setup_watcher may fail, which is reported and survived.
open_file(path) ==
    IF ~Readable(fs, path)
    THEN /\ pc' = "error"
         /\ UNCHANGED <<disk, editor, mode, status_message, file_changed_externally,
                        watcher_rx>>
    ELSE /\ pc' = AfterEvent
         /\ \E c \in Contents :
               /\ disk' = c
               /\ editor' = Some(EditorOpen(path, c))
         /\ mode' = "Edit"
         /\ file_changed_externally' = FALSE
         /\ \E ok \in BOOLEAN :
               /\ watcher_rx' = IF ok THEN Some(0) ELSE watcher_rx
               /\ status_message' = IF ok THEN Some("File watcher active")
                                     ELSE Some("Watcher failed")

\* App::handle_enter with selected_index = sel
handle_enter(sel) ==
    IF search.search_active
    THEN \* get_match: matches.get(index), then files[idx], which panics out of range
         IF sel + 1 <= Len(search.matches)
         THEN IF search.matches[sel + 1][1] + 1 <= Len(search.files)
              THEN open_file(search.files[search.matches[sel + 1][1] + 1])
                   /\ UNCHANGED search
              ELSE /\ pc' = "panic"
                   /\ UNCHANGED <<disk, search, editor, mode, status_message,
                                  file_changed_externally, watcher_rx>>
         ELSE /\ pc' = AfterEvent
              /\ UNCHANGED <<disk, search, editor, mode, status_message,
                             file_changed_externally, watcher_rx>>
    ELSE LET entry == get_visible_entry(search, sel)
         IN  IF entry = None
             THEN /\ pc' = AfterEvent
                  /\ UNCHANGED <<disk, search, editor, mode, status_message,
                                 file_changed_externally, watcher_rx>>
             ELSE IF entry[1].is_dir
             THEN /\ search' = toggle_expanded(search, fs, entry[1].path)
                  /\ pc' = AfterEvent
                  /\ UNCHANGED <<disk, editor, mode, status_message,
                                 file_changed_externally, watcher_rx>>
             ELSE open_file(entry[1].path) /\ UNCHANGED search

\* handle_search_key, KeyCode::Enter
KeyEnter ==
    /\ SearchEvent /\ ~create_active
    /\ handle_enter(selected_index)
    /\ hist' = hist
    /\ UNCHANGED <<fs, search_input, selected_index, should_quit, create_active,
                   root_watcher_rx, index_rx, index_chan, worker, worker_result, last_tick_elapsed,
                   last_root_refresh_elapsed, root_refresh_pending>>

\* handle_mouse, MouseEventKind::Down on a row of the list: the row clicked is
\* any row the list shows, and rows beyond match_count are ignored.
MouseDown ==
    /\ SearchEvent /\ ~create_active
    /\ \E clicked_index \in 0..saturating_sub1(match_count(search)) :
          /\ clicked_index < match_count(search)
          /\ selected_index' = clicked_index
          /\ handle_enter(clicked_index)
    /\ hist' = hist
    /\ UNCHANGED <<fs, search_input, should_quit, create_active, root_watcher_rx,
                   index_rx, index_chan, worker, worker_result, last_tick_elapsed,
                   last_root_refresh_elapsed, root_refresh_pending>>

\* handle_mouse, ScrollUp and ScrollDown in the search view
MouseScroll ==
    /\ SearchEvent /\ ~create_active
    /\ \/ selected_index' = IF selected_index >= 3 THEN selected_index - 3 ELSE 0
       \/ selected_index' = Min(selected_index + 3, saturating_sub1(match_count(search)))
    /\ pc' = AfterEvent
    /\ hist' = hist
    /\ UNCHANGED <<fs, disk, search, editor, mode, search_input, should_quit,
                   status_message, file_changed_externally, create_active, watcher_rx,
                   root_watcher_rx, index_rx, index_chan, worker, worker_result, last_tick_elapsed,
                   last_root_refresh_elapsed, root_refresh_pending>>

\* handle_search_key, KeyCode::Tab
KeyTab ==
    /\ SearchEvent /\ ~create_active
    /\ search' = update_query(toggle_hidden(search, fs), search_input)
    /\ selected_index' = 0
    /\ status_message' = IF search'.show_hidden THEN Some("Hidden files: SHOWN")
                         ELSE Some("Hidden files: HIDDEN")
    /\ pc' = AfterEvent
    /\ hist' = [hist EXCEPT !.owed = FALSE]
    /\ UNCHANGED <<fs, disk, editor, mode, search_input, should_quit,
                   file_changed_externally, create_active, watcher_rx, root_watcher_rx,
                   index_rx, index_chan, worker, worker_result, last_tick_elapsed,
                   last_root_refresh_elapsed, root_refresh_pending>>

\* handle_search_key, KeyCode::Esc
KeyEscSearch ==
    /\ SearchEvent /\ ~create_active
    /\ should_quit' = TRUE
    /\ pc' = AfterEvent
    /\ hist' = hist
    /\ UNCHANGED <<fs, disk, search, editor, mode, search_input, selected_index,
                   status_message, file_changed_externally, create_active, watcher_rx,
                   root_watcher_rx, index_rx, index_chan, worker, worker_result, last_tick_elapsed,
                   last_root_refresh_elapsed, root_refresh_pending>>

\* handle_search_key, KeyCode::Up and KeyCode::Down
KeyUpDown ==
    /\ SearchEvent /\ ~create_active
    /\ \/ selected_index' = IF selected_index > 0 THEN selected_index - 1 ELSE selected_index
       \/ selected_index' = IF selected_index < saturating_sub1(match_count(search))
                            THEN selected_index + 1 ELSE selected_index
    /\ pc' = AfterEvent
    /\ hist' = hist
    /\ UNCHANGED <<fs, disk, search, editor, mode, search_input, should_quit,
                   status_message, file_changed_externally, create_active, watcher_rx,
                   root_watcher_rx, index_rx, index_chan, worker, worker_result, last_tick_elapsed,
                   last_root_refresh_elapsed, root_refresh_pending>>

\* handle_search_key, KeyCode::Char(c) and KeyCode::Backspace
KeyQuery ==
    /\ SearchEvent /\ ~create_active
    /\ \/ \E c \in QueryChars :
            /\ Len(search_input) < MaxQuery
            /\ search_input' = Append(search_input, c)
       \/ search_input' = SubSeq(search_input, 1, saturating_sub1(Len(search_input)))
    /\ search' = update_query(search, search_input')
    /\ selected_index' = 0
    /\ pc' = AfterEvent
    /\ hist' = hist
    /\ UNCHANGED <<fs, disk, editor, mode, should_quit, status_message,
                   file_changed_externally, create_active, watcher_rx, root_watcher_rx,
                   index_rx, index_chan, worker, worker_result, last_tick_elapsed,
                   last_root_refresh_elapsed, root_refresh_pending>>

\* handle_search_key, Ctrl+N: start_create_mode
KeyCtrlN ==
    /\ SearchEvent /\ ~create_active
    /\ create_active' = TRUE
    /\ pc' = AfterEvent
    /\ hist' = hist
    /\ UNCHANGED <<fs, disk, search, editor, mode, search_input, selected_index,
                   should_quit, status_message, file_changed_externally, watcher_rx,
                   root_watcher_rx, index_rx, index_chan, worker, worker_result, last_tick_elapsed,
                   last_root_refresh_elapsed, root_refresh_pending>>

\* handle_create_key, KeyCode::Esc: stop_create_mode
CreateEsc ==
    /\ SearchEvent /\ create_active
    /\ create_active' = FALSE
    /\ pc' = AfterEvent
    /\ hist' = hist
    /\ UNCHANGED <<fs, disk, search, editor, mode, search_input, selected_index,
                   should_quit, status_message, file_changed_externally, watcher_rx,
                   root_watcher_rx, index_rx, index_chan, worker, worker_result, last_tick_elapsed,
                   last_root_refresh_elapsed, root_refresh_pending>>

\* fs::create_dir_all(p) succeeds when no component of p exists as a plain file.
CanCreateDirAll(f, p) == \A i \in 1..Len(p) : KindOf(f, SubSeq(p, 1, i)) # "file"

\* The tree after fs::create_dir_all(p)
create_dir_all(f, p) ==
    [q \in Universe |-> IF IsPrefix(q, p) /\ f[q] = "none" THEN "dir" ELSE f[q]]

\* handle_create_key, KeyCode::Enter: apply_create_input on the text typed, then
\* stop_create_mode. The text is empty, or is rejected, or names target (as a
\* folder when it ends with a separator). What the application creates is seen
\* by its own root watcher.
CreateEnter(paths) ==
    /\ SearchEvent /\ create_active
    /\ create_active' = FALSE
    /\ pc' = AfterEvent
    /\ \/ /\ \E msg \in {status_message, Some("Invalid path")} : status_message' = msg
          /\ hist' = hist
          /\ UNCHANGED <<fs, search, selected_index, root_watcher_rx>>
       \/ \E target \in paths, is_dir \in BOOLEAN :
            LET existed == KindOf(fs, target) # "none"
                dirs == IF is_dir THEN target ELSE Parent(target)
                made == create_dir_all(fs, dirs)
                final == IF is_dir \/ existed THEN made ELSE [made EXCEPT ![target] = "file"]
            IN  /\ is_dir => target \in CanBeDir
                /\ ~is_dir => target \in CanBeFile \/ existed
                /\ IF CanCreateDirAll(fs, dirs)
                   THEN /\ fs' = final
                        /\ search' = refresh_search(search, final, search_input)
                        /\ selected_index' = Clamp(search', selected_index)
                        /\ status_message' = IF is_dir THEN Some("Created folder")
                                             ELSE IF existed THEN Some("File exists")
                                             ELSE Some("Created file")
                        /\ root_watcher_rx' = IF final = fs THEN root_watcher_rx
                                              ELSE Queued(root_watcher_rx)
                        /\ hist' = IF final = fs THEN [hist EXCEPT !.owed = FALSE]
                                   ELSE RootSend(hist)
                   ELSE /\ status_message' = Some("Create failed")
                        /\ hist' = hist
                        /\ UNCHANGED <<fs, search, selected_index, root_watcher_rx>>
    /\ UNCHANGED <<disk, editor, mode, search_input, should_quit,
                   file_changed_externally, watcher_rx, index_rx, index_chan, worker, worker_result,
                   last_tick_elapsed, last_root_refresh_elapsed, root_refresh_pending>>

\* handle_edit_key, Ctrl+R: Editor::reload, whose error leaves run()
KeyCtrlR ==
    /\ EditEvent /\ editor # None
    /\ IF Readable(fs, editor[1].path)
       THEN /\ editor' = Some(reload(editor[1], disk))
            /\ file_changed_externally' = FALSE
            /\ status_message' = Some("File reloaded")
            /\ pc' = AfterEvent
       ELSE /\ pc' = "error"
            /\ UNCHANGED <<editor, file_changed_externally, status_message>>
    /\ hist' = hist
    /\ UNCHANGED <<fs, disk, search, mode, search_input, selected_index, should_quit,
                   create_active, watcher_rx, root_watcher_rx, index_rx, index_chan,
                   worker, worker_result, last_tick_elapsed, last_root_refresh_elapsed,
                   root_refresh_pending>>

\* clear_watcher keeping the receiver
clear_watcher_keeps_rx(rx) == rx

\* App::clear_watcher: the watcher and the receiver are dropped
clear_watcher(rx) == None

\* handle_edit_key, KeyCode::Esc: save when modified (an error leaves run()),
\* then clear_watcher and back to the search view. A file that save has to
\* create is seen by the root watcher.
KeyEscEdit ==
    /\ EditEvent /\ editor # None
    /\ IF is_modified(editor[1]) /\ ~Writable(fs, editor[1].path)
       THEN /\ pc' = "error"
            /\ hist' = hist
            /\ UNCHANGED <<fs, disk, editor, mode, status_message,
                           file_changed_externally, watcher_rx, root_watcher_rx>>
       ELSE /\ pc' = AfterEvent
            /\ fs' = IF is_modified(editor[1]) THEN [fs EXCEPT ![editor[1].path] = "file"]
                     ELSE fs
            /\ root_watcher_rx' = IF fs' = fs THEN root_watcher_rx
                                  ELSE Queued(root_watcher_rx)
            /\ hist' = LET h == IF hist.timed /\ watcher_rx \notin {None, Some(0)}
                                 THEN [hist EXCEPT !.discarded = TRUE] ELSE hist
                       IN  IF fs' = fs THEN h ELSE RootSend(h)
            /\ disk' = <<>>
            /\ editor' = None
            /\ mode' = "Search"
            /\ status_message' = None
            /\ file_changed_externally' = FALSE
            /\ watcher_rx' = clear_watcher(watcher_rx)
    /\ UNCHANGED <<search, search_input, selected_index, should_quit, create_active,
                   index_rx, index_chan, worker, worker_result, last_tick_elapsed,
                   last_root_refresh_elapsed, root_refresh_pending>>

\* handle_edit_key, any other key: Editor::handle_input
KeyEdit ==
    /\ EditEvent /\ editor # None
    /\ \E key \in EditKeys : editor' = Some(handle_input(editor[1], key))
    /\ pc' = AfterEvent
    /\ hist' = hist
    /\ UNCHANGED <<fs, disk, search, mode, search_input, selected_index, should_quit,
                   status_message, file_changed_externally, create_active, watcher_rx,
                   root_watcher_rx, index_rx, index_chan, worker, worker_result, last_tick_elapsed,
                   last_root_refresh_elapsed, root_refresh_pending>>

\* handle_mouse in the editor view: ScrollUp and ScrollDown move the cursor,
\* which the model does not keep.
MouseEdit ==
    /\ EditEvent
    /\ pc' = AfterEvent
    /\ hist' = hist
    /\ UNCHANGED <<fs, disk, search, editor, mode, search_input, selected_index,
                   should_quit, status_message, file_changed_externally, create_active,
                   watcher_rx, root_watcher_rx, index_rx, index_chan, worker, worker_result,
                   last_tick_elapsed, last_root_refresh_elapsed, root_refresh_pending>>

-----------------------------------------------------------------------------
(* App::run: the tick *)

\* A tick that starts at the completion poll, without the two drains
TickStart_at_index ==
    /\ pc = "poll" /\ ~should_quit
    /\ last_tick_elapsed >= tick_rate
    /\ pc' = "index"
    /\ hist' = hist
    /\ UNCHANGED <<fs, disk, search, editor, mode, search_input, selected_index,
                   should_quit, status_message, file_changed_externally, create_active,
                   watcher_rx, root_watcher_rx, index_rx, index_chan, worker, worker_result,
                   last_tick_elapsed, last_root_refresh_elapsed, root_refresh_pending>>

\* event::poll timed out: the tick test of the loop body succeeds
TickStart ==
    /\ pc = "poll" /\ ~should_quit
    /\ last_tick_elapsed >= tick_rate
    /\ pc' = "file"
    /\ hist' = hist
    /\ UNCHANGED <<fs, disk, search, editor, mode, search_input, selected_index,
                   should_quit, status_message, file_changed_externally, create_active,
                   watcher_rx, root_watcher_rx, index_rx, index_chan, worker, worker_result,
                   last_tick_elapsed, last_root_refresh_elapsed, root_refresh_pending>>

\* while !self.should_quit
LoopExit ==
    /\ pc = "poll" /\ should_quit
    /\ pc' = "done"
    /\ hist' = hist
    /\ UNCHANGED <<fs, disk, search, editor, mode, search_input, selected_index,
                   should_quit, status_message, file_changed_externally, create_active,
                   watcher_rx, root_watcher_rx, index_rx, index_chan, worker, worker_result,
                   last_tick_elapsed, last_root_refresh_elapsed, root_refresh_pending>>

\* check_file_changes without the is_modified test
check_file_changes_always_reload(e, rx, flag, status, readable, content) ==
    IF e = None THEN [editor |-> e, watcher_rx |-> rx, flag |-> flag, status |-> status]
    ELSE IF rx = None \/ rx = Some(0)
    THEN [editor |-> e, watcher_rx |-> rx, flag |-> flag, status |-> status]
    ELSE IF readable
    THEN [editor |-> Some(reload(e[1], content)), watcher_rx |-> Some(0), flag |-> FALSE,
          status |-> Some("File reloaded (external change)")]
    ELSE [editor |-> e, watcher_rx |-> Some(0), flag |-> flag,
          status |-> Some("Reload failed")]

\* check_file_changes receiving one signal only, not draining the channel
check_file_changes_one_signal(e, rx, flag, status, readable, content) ==
    IF e = None THEN [editor |-> e, watcher_rx |-> rx, flag |-> flag, status |-> status]
    ELSE IF rx = None \/ rx = Some(0)
    THEN [editor |-> e, watcher_rx |-> rx, flag |-> flag, status |-> status]
    ELSE IF is_modified(e[1])
    THEN [editor |-> e, watcher_rx |-> Some(rx[1] - 1), flag |-> TRUE,
          status |-> Some("External change detected (unsaved edits)")]
    ELSE IF readable
    THEN [editor |-> Some(reload(e[1], content)), watcher_rx |-> Some(rx[1] - 1),
          flag |-> FALSE, status |-> Some("File reloaded (external change)")]
    ELSE [editor |-> e, watcher_rx |-> Some(rx[1] - 1), flag |-> flag,
          status |-> Some("Reload failed")]

\* check_file_changes whose failed reload leaves an empty buffer behind
check_file_changes_failure_clears(e, rx, flag, status, readable, content) ==
    IF e = None THEN [editor |-> e, watcher_rx |-> rx, flag |-> flag, status |-> status]
    ELSE IF rx = None \/ rx = Some(0)
    THEN [editor |-> e, watcher_rx |-> rx, flag |-> flag, status |-> status]
    ELSE IF is_modified(e[1])
    THEN [editor |-> e, watcher_rx |-> Some(0), flag |-> TRUE,
          status |-> Some("External change detected (unsaved edits)")]
    ELSE IF readable
    THEN [editor |-> Some(reload(e[1], content)), watcher_rx |-> Some(0), flag |-> FALSE,
          status |-> Some("File reloaded (external change)")]
    ELSE [editor |-> Some(reload(e[1], <<>>)), watcher_rx |-> Some(0), flag |-> flag,
          status |-> Some("Reload failed")]

\* App::check_file_changes on the editor e, the per-file channel rx, the conflict
\* flag and the status; readable and content are what fs::read_to_string gives.
check_file_changes(e, rx, flag, status, readable, content) ==
    IF e = None THEN [editor |-> e, watcher_rx |-> rx, flag |-> flag, status |-> status]
    ELSE IF rx = None \/ rx = Some(0)
    THEN [editor |-> e, watcher_rx |-> rx, flag |-> flag, status |-> status]
    ELSE IF is_modified(e[1])
    THEN [editor |-> e, watcher_rx |-> Some(0), flag |-> TRUE,
          status |-> Some("External change detected (unsaved edits)")]
    ELSE IF readable
    THEN [editor |-> Some(reload(e[1], content)), watcher_rx |-> Some(0), flag |-> FALSE,
          status |-> Some("File reloaded (external change)")]
    ELSE [editor |-> e, watcher_rx |-> Some(0), flag |-> flag,
          status |-> Some("Reload failed")]

CheckFileChanges ==
    /\ pc = "file"
    /\ LET r == check_file_changes(editor, watcher_rx, file_changed_externally,
                                   status_message,
                                   editor # None /\ Readable(fs, editor[1].path), disk)
       IN  /\ editor' = r.editor
           /\ watcher_rx' = r.watcher_rx
           /\ file_changed_externally' = r.flag
           /\ status_message' = r.status
    /\ pc' = "root"
    /\ hist' = hist
    /\ UNCHANGED <<fs, disk, search, mode, search_input, selected_index, should_quit,
                   create_active, root_watcher_rx, index_rx, index_chan, worker, worker_result,
                   last_tick_elapsed, last_root_refresh_elapsed, root_refresh_pending>>

\* check_root_changes not counting the first signal it receives
check_root_changes_lossy(rx) ==
    IF rx = None \/ rx = Some(0) THEN [changed |-> FALSE, rx |-> rx]
    ELSE [changed |-> rx[1] > 1, rx |-> Some(0)]

\* App::check_root_changes: whether a signal was drained, and the channel after
check_root_changes(rx) ==
    IF rx = None \/ rx = Some(0) THEN [changed |-> FALSE, rx |-> rx]
    ELSE [changed |-> TRUE, rx |-> Some(0)]

CheckRootChanges ==
    /\ pc = "root"
    /\ LET r == check_root_changes(root_watcher_rx)
       IN  /\ root_watcher_rx' = r.rx
           /\ root_refresh_pending' = (root_refresh_pending \/ r.changed)
           /\ hist' = IF r.changed
                      THEN [hist EXCEPT
                               !.unserved = TRUE,
                               !.unserved_age = hist.chan_age,
                               !.unserved_near = hist.unserved_near \/ hist.chan_near,
                               !.unserved_n = IF hist.timed
                                              THEN Min(@ + root_watcher_rx[1], MaxSignals)
                                              ELSE @,
                               !.chan_age = IF r.rx = Some(0) THEN refresh_interval ELSE @,
                               !.chan_near = IF r.rx = Some(0) THEN FALSE ELSE @]
                      ELSE hist
    /\ pc' = "index"
    /\ UNCHANGED <<fs, disk, search, editor, mode, search_input, selected_index,
                   should_quit, status_message, file_changed_externally, create_active,
                   watcher_rx, index_rx, index_chan, worker, worker_result, last_tick_elapsed,
                   last_root_refresh_elapsed>>

\* Receiver::try_recv on the completion channel
try_recv(chan) ==
    IF chan.msgs # <<>> THEN [kind |-> "Ok", result |-> Head(chan.msgs)]
    ELSE IF chan.sender THEN [kind |-> "Empty"] ELSE [kind |-> "Disconnected"]

\* check_indexing keeping the receiver after a completion
check_indexing_keep_rx(s, sel, status, query, rx, chan) ==
    LET r == try_recv(chan)
        same == [search |-> s, selected_index |-> sel, status_message |-> status,
                 index_rx |-> rx, index_chan |-> chan, consumed |-> FALSE]
    IN  IF rx = None \/ r.kind = "Empty" THEN same
        ELSE IF r.kind = "Ok" /\ r.result.ok
        THEN LET s2 == update_query(apply_index(s, r.result.files), query)
             IN  [search |-> s2, selected_index |-> Clamp(s2, sel),
                  status_message |-> IF status = Some("Indexing...") THEN None ELSE status,
                  index_rx |-> rx, index_chan |-> [chan EXCEPT !.msgs = Tail(@)],
                  consumed |-> TRUE]
        ELSE [search |-> [s EXCEPT !.indexing = FALSE], selected_index |-> sel,
              status_message |-> IF r.kind = "Ok" THEN Some("Indexing failed: error")
                                 ELSE Some("Indexing failed: worker disconnected"),
              index_rx |-> rx,
              index_chan |-> [chan EXCEPT !.msgs = IF @ = <<>> THEN @ ELSE Tail(@)],
              consumed |-> TRUE]

\* check_indexing leaving search.indexing set on a failure
check_indexing_err_keeps_flag(s, sel, status, query, rx, chan) ==
    LET r == try_recv(chan)
        same == [search |-> s, selected_index |-> sel, status_message |-> status,
                 index_rx |-> rx, index_chan |-> chan, consumed |-> FALSE]
    IN  IF rx = None \/ r.kind = "Empty" THEN same
        ELSE IF r.kind = "Ok" /\ r.result.ok
        THEN LET s2 == update_query(apply_index(s, r.result.files), query)
             IN  [search |-> s2, selected_index |-> Clamp(s2, sel),
                  status_message |-> IF status = Some("Indexing...") THEN None ELSE status,
                  index_rx |-> None, index_chan |-> [chan EXCEPT !.msgs = <<>>],
                  consumed |-> TRUE]
        ELSE [search |-> s, selected_index |-> sel,
              status_message |-> IF r.kind = "Ok" THEN Some("Indexing failed: error")
                                 ELSE Some("Indexing failed: worker disconnected"),
              index_rx |-> None, index_chan |-> [chan EXCEPT !.msgs = <<>>],
              consumed |-> TRUE]

\* App::check_indexing. Dropping the receiver (index_rx = None) discards what
\* the channel still holds.
check_indexing(s, sel, status, query, rx, chan) ==
    LET r == try_recv(chan)
        same == [search |-> s, selected_index |-> sel, status_message |-> status,
                 index_rx |-> rx, index_chan |-> chan, consumed |-> FALSE]
    IN  IF rx = None \/ r.kind = "Empty" THEN same
        ELSE IF r.kind = "Ok" /\ r.result.ok
        THEN LET s2 == update_query(apply_index(s, r.result.files), query)
             IN  [search |-> s2, selected_index |-> Clamp(s2, sel),
                  status_message |-> IF status = Some("Indexing...") THEN None ELSE status,
                  index_rx |-> None, index_chan |-> [chan EXCEPT !.msgs = <<>>],
                  consumed |-> TRUE]
        ELSE [search |-> [s EXCEPT !.indexing = FALSE], selected_index |-> sel,
              status_message |-> IF r.kind = "Ok" THEN Some("Indexing failed: error")
                                 ELSE Some("Indexing failed: worker disconnected"),
              index_rx |-> None, index_chan |-> [chan EXCEPT !.msgs = <<>>],
              consumed |-> TRUE]

CheckIndexing ==
    /\ pc = "index"
    /\ LET r == check_indexing(search, selected_index, status_message, search_input,
                               index_rx, index_chan)
       IN  /\ search' = r.search
           /\ selected_index' = r.selected_index
           /\ status_message' = r.status_message
           /\ index_rx' = r.index_rx
           /\ index_chan' = r.index_chan
           /\ hist' = IF r.consumed
                      THEN [hist EXCEPT !.completions = @ + 1]
                      ELSE hist
    /\ pc' = "refresh"
    /\ UNCHANGED <<fs, disk, editor, mode, search_input, should_quit,
                   file_changed_externally, create_active, watcher_rx, root_watcher_rx,
                   worker, worker_result, last_tick_elapsed, last_root_refresh_elapsed,
                   root_refresh_pending>>

\* The tick refresh on the timer alone, whether or not a signal is pending
should_refresh_no_pending(pending, indexing, elapsed) ==
    ~indexing /\ elapsed >= refresh_interval

\* The tick refresh without the test of the time since the last one
should_refresh_no_interval(pending, indexing, elapsed) ==
    pending /\ ~indexing

\* The condition of the refresh at the end of a tick
should_refresh(pending, indexing, elapsed) ==
    pending /\ ~indexing /\ elapsed >= refresh_interval

\* The conditional refresh that ends a tick, and last_tick = Instant::now()
TickRefresh ==
    /\ pc = "refresh"
    /\ IF should_refresh(root_refresh_pending, search.indexing, last_root_refresh_elapsed)
       THEN /\ search' = refresh_search(search, fs, search_input)
            /\ selected_index' = Clamp(search', selected_index)
            /\ root_refresh_pending' = FALSE
            /\ last_root_refresh_elapsed' = 0
            /\ hist' = [hist EXCEPT
                           !.owed = FALSE,
                           !.unserved = FALSE,
                           !.unserved_age = refresh_interval,
                           !.unserved_near = FALSE,
                           !.unserved_n = 0,
                           !.served_n = hist.unserved_n,
                           !.served_age = IF hist.unserved THEN hist.unserved_age ELSE @,
                           !.batch_near = hist.unserved_near,
                           !.chan_near = \/ hist.chan_near
                                         \/ /\ root_watcher_rx \notin {None, Some(0)}
                                            /\ hist.unserved
                                            /\ hist.unserved_age < refresh_interval]
       ELSE /\ hist' = hist
            /\ UNCHANGED <<search, selected_index, root_refresh_pending,
                           last_root_refresh_elapsed>>
    /\ last_tick_elapsed' = 0
    /\ pc' = "poll"
    /\ UNCHANGED <<fs, disk, editor, mode, search_input, should_quit, status_message,
                   file_changed_externally, create_active, watcher_rx, root_watcher_rx,
                   index_rx, index_chan, worker, worker_result>>

-----------------------------------------------------------------------------
(* Specifications *)

\* The producers: other processes changing the tree or the open file, the
\* background scan thread, and the clock.
Producers(paths) ==
    \/ FsCreateFile(paths)
    \/ FsCreateDir(paths)
    \/ FsRemove(paths)
    \/ FsRename(paths)
    \/ DiskModify
    \/ WorkerScan
    \/ WorkerSend
    \/ Advance

\* One pass through the tick block of the loop body
TickSteps ==
    \/ TickStart
    \/ CheckFileChanges
    \/ CheckRootChanges
    \/ CheckIndexing
    \/ TickRefresh

Tick == TickSteps \/ LoopExit

SearchKeys(paths) ==
    \/ KeyEnter
    \/ MouseDown
    \/ MouseScroll
    \/ KeyTab
    \/ KeyEscSearch
    \/ KeyUpDown
    \/ KeyQuery
    \/ KeyCtrlN
    \/ CreateEsc
    \/ CreateEnter(paths)

EditKeysNext ==
    \/ KeyCtrlR
    \/ KeyEscEdit
    \/ KeyEdit
    \/ MouseEdit

Next == Producers(Universe) \/ Tick \/ SearchKeys(Universe) \/ EditKeysNext

Spec == Init /\ [][Next]_vars

-----------------------------------------------------------------------------
(* Scenarios: the same handlers under a narrower environment and user *)

\* The paths other processes change while the tree is browsed.
TreePaths == {PAH, PAHX, PB}

\* Enter on a directory row only: the editor stays closed.
KeyEnterDir == KeyEnter /\ mode' = "Search" /\ pc' # "error"

\* A click on a directory row only.
MouseDownDir == MouseDown /\ mode' = "Search" /\ pc' # "error"

\* Browsing the lazy tree while the directory changes underneath: no root
\* watcher, no clock.
TreeNext ==
    \/ FsCreateFile(TreePaths)
    \/ FsCreateDir(TreePaths)
    \/ FsRemove(TreePaths)
    \/ FsRename(TreePaths)
    \/ KeyEnterDir
    \/ MouseDownDir
    \/ KeyUpDown
    \/ KeyTab
    \/ KeyCtrlN
    \/ CreateEnter({PB})

TreeSpec == InitWith(InitialTrees, {FALSE}, FALSE) /\ [][TreeNext]_vars

\* Typing a query over a flat index that rescans and another process change.
QueryNext ==
    \/ FsCreateFile({PB})
    \/ FsRemove({PB})
    \/ WorkerScan
    \/ WorkerSend
    \/ Advance
    \/ TickSteps
    \/ KeyQuery
    \/ KeyTab

QuerySpec == InitWith(InitialTrees, {FALSE}, FALSE) /\ [][QueryNext]_vars

\* The scheduler: root signals, the background scan, the clock and the tick,
\* with a user who toggles hidden files.
IndexNext ==
    \/ FsCreateFile({PB})
    \/ FsRemove({PB})
    \/ WorkerScan
    \/ WorkerSend
    \/ Advance
    \/ TickSteps
    \/ KeyTab

IndexSpec == InitWith(InitialTrees, {TRUE}, FALSE) /\ [][IndexNext]_vars

\* The scheduler under the fairness the loop provides: time passes, the scan
\* thread finishes, and the loop body runs to its end. CheckIndexing and
\* TickRefresh are enabled exactly at their own position of the loop body and
\* only they leave it, so their weak fairness is stated on pc.
LiveSpec ==
    /\ InitWith(InitialTrees, {TRUE}, FALSE)
    /\ [][IndexNext]_vars
    /\ WF_vars(Advance)
    /\ WF_vars(WorkerScan)
    /\ WF_vars(WorkerSend)
    /\ WF_vars(TickStart)
    /\ WF_vars(CheckFileChanges)
    /\ WF_vars(CheckRootChanges)
    /\ []<>(pc # "index")
    /\ []<>(pc # "refresh")

\* The scheduler with the send times of the root signals recorded.
DebounceNext ==
    \/ FsCreateFile({PB})
    \/ FsRemove({PB})
    \/ WorkerScan
    \/ WorkerSend
    \/ Advance
    \/ TickSteps

DebounceSpec == InitWith(InitialTrees, {TRUE}, TRUE) /\ [][DebounceNext]_vars

\* Polling the completion channel for every value the worker's Result may take.
PollNext ==
    \/ WorkerScan
    \/ WorkerSend
    \/ WorkerFail
    \/ WorkerPanic
    \/ Advance
    \/ TickSteps
    \/ KeyTab
    \/ KeyQuery

PollSpec == InitWith(InitialTrees, {TRUE}, FALSE) /\ [][PollNext]_vars

\* One file open in the editor while another process rewrites it.
EditNext ==
    \/ DiskModify
    \/ Advance
    \/ TickSteps
    \/ KeyEnter
    \/ KeyEdit
    \/ KeyCtrlR
    \/ KeyEscEdit

EditSpec == InitWith({[p \in Universe |-> IF p = PB THEN "file" ELSE "none"]}, {FALSE}, FALSE)
            /\ [][EditNext]_vars

\* One file renamed back and forth by another process while the scan thread
\* runs and the user toggles hidden files.
RenameNext ==
    \/ FsRename({PAB, PB})
    \/ WorkerScan
    \/ WorkerSend
    \/ Advance
    \/ TickSteps
    \/ KeyTab

RenameSpec == InitWith({t \in InitialTrees : t[PB] = "none"}, {TRUE}, FALSE)
              /\ [][RenameNext]_vars

\* Every producer at once: another process creating and removing b, another
\* process rewriting the open file, the scan thread, and a user who opens the
\* file, types and leaves the editor.
OwnerNext ==
    \/ FsCreateFile({PB})
    \/ FsRemove({PB})
    \/ DiskModify
    \/ WorkerScan
    \/ WorkerSend
    \/ Advance
    \/ TickSteps
    \/ KeyEnter
    \/ KeyEdit
    \/ KeyEscEdit

OwnerSpec == InitWith({[p \in Universe |-> IF p = PB THEN "file" ELSE "none"]}, {TRUE}, FALSE)
             /\ [][OwnerNext]_vars

\* The scheduler with a user who toggles hidden files and creates a file.
GateNext ==
    \/ IndexNext
    \/ KeyCtrlN
    \/ CreateEnter({PB})

GateSpec == InitWith(InitialTrees, {TRUE}, FALSE) /\ [][GateNext]_vars

\* The editor scenario with the dropped signals recorded.
CloseSpec == InitWith({[p \in Universe |-> IF p = PB THEN "file" ELSE "none"]}, {FALSE}, TRUE)
             /\ [][EditNext]_vars

\* Browsing the tree while another process replaces the file a by a directory
\* a holding a/b, or that directory by a file.
SwapNext ==
    \/ FsCreateFile({PA, PAB})
    \/ FsCreateDir({PA})
    \/ FsRemove({PA, PAB})
    \/ KeyEnterDir
    \/ KeyUpDown
    \/ KeyTab

SwapSpec == InitWith({[p \in Universe |-> CASE p = PA -> k
                                              [] p = PAB -> IF k = "dir" THEN "file" ELSE "none"
                                              [] p = PB -> "file"
                                              [] OTHER -> "none"] : k \in {"file", "dir"}},
                     {FALSE}, FALSE)
            /\ [][SwapNext]_vars

\* Moving the selection in a queried list while the index is rescanned: typing,
\* arrows and the wheel, Tab, Enter on directories, the background result, and
\* root-watcher refreshes as another process creates and removes b.
SelectNext ==
    \/ QueryNext
    \/ KeyUpDown
    \/ MouseScroll
    \/ KeyEnterDir

SelectSpec == InitWith({t \in InitialTrees : t[PB] = "file"}, {TRUE}, FALSE)
              /\ [][SelectNext]_vars

-----------------------------------------------------------------------------
(* Properties *)

\* C1: conflict safety. A step of check_file_changes that drains at least one
\* per-file signal while the open editor is modified leaves the editor as it
\* is and sets file_changed_externally; and any step that gives a modified
\* editor a buffer that no key typed into it explains is the Ctrl+R handler's
\* reload from disk.
C1_ConflictSafety ==
    [][(editor # None /\ is_modified(editor[1])) =>
          /\ (pc = "file" /\ pc' = "root" /\ watcher_rx \notin {None, Some(0)}) =>
                /\ editor' = editor
                /\ file_changed_externally' = TRUE
                /\ watcher_rx' = Some(0)
          /\ (/\ editor' # editor
              /\ editor' # None
              /\ \A key \in EditKeys : editor' # Some(handle_input(editor[1], key))) =>
                /\ pc = "poll" /\ mode = "Edit"
                /\ editor' = Some(reload(editor[1], disk))
                /\ status_message' = Some("File reloaded")]_vars

\* C1 witness: the tick has met a signal on a modified buffer that differs
\* from the disk, and has raised the flag instead of reloading.
C1_Witness ==
    /\ editor # None
    /\ is_modified(editor[1])
    /\ file_changed_externally
    /\ status_message = Some("External change detected (unsaved edits)")
    /\ join(editor[1].textarea) # disk
    /\ pc = "root"

\* C2 as the specification states it: signals sent less than refresh_interval
\* apart are never served by two different tick rescans.
C2_OneRescanPerInterval == ~hist.batch_near

\* C2: the tick's rescan is a throttle. Every drain empties the root channel
\* and sets root_refresh_pending when it drained something; a tick ends with a
\* rescan exactly when root_refresh_pending is set, indexing is clear and
\* refresh_interval has passed since the previous tick rescan; that one rescan
\* serves every signal drained so far and clears root_refresh_pending.
C2_Throttle ==
    [][/\ (pc = "root" /\ pc' = "index") =>
             /\ root_watcher_rx' \in {None, Some(0)}
             /\ root_refresh_pending' =
                   (root_refresh_pending \/ root_watcher_rx \notin {None, Some(0)})
       /\ (pc = "refresh" /\ pc' = "poll") =>
             IF root_refresh_pending /\ ~search.indexing
                /\ last_root_refresh_elapsed >= refresh_interval
             THEN /\ hist.unserved
                  /\ search' = refresh_search(search, fs, search_input)
                  /\ ~root_refresh_pending'
                  /\ last_root_refresh_elapsed' = 0
                  /\ ~hist'.unserved
             ELSE /\ search' = search
                  /\ root_refresh_pending' = root_refresh_pending
                  /\ last_root_refresh_elapsed' = last_root_refresh_elapsed]_vars

\* C2 witness: one tick rescan has just served two signals at once.
C2_Witness ==
    /\ hist.served_n >= 2
    /\ ~hist.unserved
    /\ ~root_refresh_pending
    /\ last_root_refresh_elapsed = 0
    /\ pc = "poll"

\* C3: no structural change goes permanently unnoticed. Whenever a root signal
\* has been sent and no full rescan has started since, a full rescan follows.
C3_NoSignalLost == hist.owed ~> ~hist.owed

\* C3 witness: a signal arrived after this tick's drain and before its
\* refresh, while the background scan is still in progress.
C3_Witness ==
    /\ hist.owed
    /\ pc = "refresh"
    /\ root_watcher_rx \notin {None, Some(0)}
    /\ search.indexing

\* C4: the background indexer is one-shot. The worker sends at most one
\* result and has sent it once it is done; the driver consumes at most one
\* completion, and has consumed it exactly when index_rx is None; from then on
\* index_rx stays None and check_indexing changes nothing.
C4_OneShotIndexer ==
    /\ [](/\ hist.results_sent <= 1
          /\ (worker = "done" <=> hist.results_sent = 1)
          /\ hist.completions <= 1
          /\ (index_rx = None <=> hist.completions = 1))
    /\ [][index_rx = None =>
             /\ index_rx' = None
             /\ hist'.completions = hist.completions
             /\ (pc = "index" /\ pc' = "refresh") =>
                   UNCHANGED <<search, selected_index, status_message>>]_vars

\* C4 witness: a tick polls for the index after the completion was consumed.
C4_Witness ==
    /\ index_rx = None
    /\ hist.completions = 1
    /\ hist.results_sent = 1
    /\ pc = "index"

\* C5: the outcomes of check_indexing. An empty channel changes nothing; a
\* successful result replaces the flat index and clears indexing; a failed
\* result keeps the flat index, clears indexing and sets the "Indexing
\* failed: ..." status; a disconnect clears indexing and sets the "worker
\* disconnected" status.
C5_PollOutcomes ==
    [][(pc = "index" /\ pc' = "refresh" /\ index_rx # None) =>
          LET r == try_recv(index_chan)
          IN  IF r.kind = "Empty"
              THEN UNCHANGED <<search, selected_index, status_message, index_rx,
                               index_chan>>
              ELSE IF r.kind = "Disconnected"
              THEN /\ ~search'.indexing
                   /\ status_message' = Some("Indexing failed: worker disconnected")
              ELSE IF r.result.ok
              THEN /\ search'.files = r.result.files
                   /\ ~search'.indexing
              ELSE /\ search'.files = search.files
                   /\ ~search'.indexing
                   /\ status_message' = Some("Indexing failed: error")]_vars

\* C5 witness: a failed result has been received while the scan was still
\* the one in progress.
C5_Witness ==
    /\ status_message = Some("Indexing failed: error")
    /\ ~search.indexing
    /\ index_rx = None
    /\ pc = "refresh"

\* C6 as the specification states it: when a full rescan has completed before
\* the background result is consumed (indexing already clear, index_rx still
\* held), receiving the background result leaves the flat index as it is.
C6_SupersededIgnored ==
    [][(/\ pc = "index" /\ pc' = "refresh"
        /\ index_rx # None
        /\ ~search.indexing) => search'.files = search.files]_vars

\* C7: expansion monotonicity. Every proper ancestor, other than the root, of
\* every entry of tree_visible is in the expanded set.
C7_ExpansionMonotone ==
    \A i \in 1..Len(search.tree_visible) :
        LET path == search.tree_visible[i].path
        IN  \A k \in 1..(Len(path) - 1) : SubSeq(path, 1, k) \in search.expanded

\* C7 witness: a collapsed directory is shown whose node holds loaded children.
C7_Witness ==
    \E i \in 1..Len(search.tree_visible) :
        LET path == search.tree_visible[i].path
        IN  /\ path \notin search.expanded
            /\ search.tree_nodes[path].children # <<>>

\* C8: fuzzy ordering. On the current flat index, update_query with a
\* non-empty query leaves matches in non-increasing score order with
\* search_active set; with the empty query it leaves the identity mapping with
\* every score 0 and search_active clear.
C8_FuzzyOrdering ==
    \A q \in UNION {[1..n -> QueryChars] : n \in 0..MaxQuery} :
        LET s2 == update_query(search, q)
        IN  IF q = <<>>
            THEN /\ ~s2.search_active
                 /\ Len(s2.matches) = Len(search.files)
                 /\ \A i \in 1..Len(search.files) : s2.matches[i] = <<i - 1, 0>>
            ELSE /\ s2.search_active
                 /\ \A i \in 1..(Len(s2.matches) - 1) :
                       s2.matches[i][2] >= s2.matches[i + 1][2]

\* C8 witness: the user's query has put a later file of the index before an
\* earlier one, by score.
C8_Witness ==
    /\ search.search_active
    /\ \E i \in 1..(Len(search.matches) - 1) :
          /\ search.matches[i][1] > search.matches[i + 1][1]
          /\ search.matches[i][2] > search.matches[i + 1][2]

\* C9 as the specification states it: neither the full scan nor the listing
\* of a directory the tree reloads returns a path with a dot-prefixed
\* component while hidden files are off, and neither ever returns .git or a
\* path beneath it.
C9_WalkerHidesDotPaths ==
    /\ \A H \in BOOLEAN :
          LET files == collect_files(fs, H)
          IN  \A i \in 1..Len(files) :
                 /\ ~HasGitComponent(files[i])
                 /\ ~H => ~HasDotComponent(files[i])
    /\ \A path \in search.expanded :
          LET children == reload_children(search.tree_nodes, fs, path,
                                          search.show_hidden)[path].children
          IN  \A i \in 1..Len(children) :
                 /\ ~HasGitComponent(children[i])
                 /\ ~search.show_hidden => ~HasDotComponent(children[i])

\* C10: idempotence of load_children. From every TreeNode map the tree
\* reaches, and for every path, a second load_children is a no-op after the
\* first, and load_children on a node with children_loaded set changes no node.
C10_LoadChildrenIdempotent ==
    \A path \in Universe \cup {RootPath} :
        LET once == load_children(search.tree_nodes, fs, path, search.show_hidden)
        IN  /\ load_children(once, fs, path, search.show_hidden) = once
            /\ (/\ path \in DOMAIN search.tree_nodes
                /\ search.tree_nodes[path].children_loaded) => once = search.tree_nodes

\* C10 witness: a loaded directory node whose cached children differ from
\* what a fresh listing would give now.
C10_Witness ==
    \E path \in DOMAIN search.tree_nodes :
        /\ search.tree_nodes[path].is_dir
        /\ search.tree_nodes[path].children_loaded
        /\ reload_children(search.tree_nodes, fs, path, search.show_hidden)
              # search.tree_nodes

\* C11 as the specification states it: after a rename of P to Q, once the
\* background result has been consumed, no root signal is queued or pending,
\* and the loop is back at its poll with refresh_interval passed since the last
\* rescan, the flat index holds Q and does not hold P.
C11_RenameReflected ==
    \A P \in {PAB, PB}, Q \in {PAB, PB} :
        (/\ P # Q
         /\ fs[P] = "none" /\ fs[Q] = "file"
         /\ index_rx = None /\ worker = "done"
         /\ root_watcher_rx = Some(0) /\ ~root_refresh_pending
         /\ last_root_refresh_elapsed >= refresh_interval
         /\ pc = "poll")
        => /\ \E i \in 1..Len(search.files) : search.files[i] = Q
           /\ \A i \in 1..Len(search.files) : search.files[i] # P

\* C12 as the specification states it: right after a full refresh the flat
\* index and the file children of every loaded directory node agree. Every
\* child of a loaded directory node that is a node with is_dir clear is in
\* files, and every file of files whose parent is a loaded directory node is a
\* child of that node with is_dir clear.
C12_IndexesConverge ==
    LET s2 == refresh(search, fs)
        nodes == s2.tree_nodes
        InFiles(p) == \E i \in 1..Len(s2.files) : s2.files[i] = p
        IsChild(d, p) == \E i \in 1..Len(nodes[d].children) : nodes[d].children[i] = p
    IN  \A d \in DOMAIN nodes :
           (nodes[d].is_dir /\ nodes[d].children_loaded) =>
              /\ \A i \in 1..Len(nodes[d].children) :
                    LET c == nodes[d].children[i]
                    IN  (c \in DOMAIN nodes /\ ~nodes[c].is_dir) => InFiles(c)
              /\ \A i \in 1..Len(s2.files) :
                    LET p == s2.files[i]
                    IN  Parent(p) = d => (IsChild(d, p) /\ ~nodes[p].is_dir)

\* C13: single-owner state. A step of the scan thread, of the root watcher
\* callback or of the per-file watcher callback changes nothing but its own
\* channel, to which it adds one message; a channel loses messages only in the
\* main loop, at the drain of its tick position (or when the loop drops or
\* replaces the per-file channel); and a producer that has something to send
\* can always send it, whatever its channel holds.
C13_SingleOwner ==
    /\ [](/\ worker = "walked" => ENABLED WorkerSend
          /\ (editor # None /\ Readable(fs, editor[1].path)) => ENABLED DiskModify
          /\ fs[PB] = "none" => ENABLED FsCreateFile({PB})
          /\ fs[PB] # "none" => ENABLED FsRemove({PB}))
    /\ [][/\ (worker' # worker) =>
                /\ UNCHANGED <<search, selected_index, search_input, editor, mode,
                               should_quit, status_message, file_changed_externally,
                               create_active, root_refresh_pending, watcher_rx,
                               root_watcher_rx, index_rx, pc>>
                /\ \/ index_chan'.msgs = index_chan.msgs
                   \/ index_chan'.msgs = Append(index_chan.msgs, worker_result[1])
          /\ (fs' # fs /\ create_active' = create_active /\ editor' = editor) =>
                /\ UNCHANGED <<search, selected_index, search_input, mode, should_quit,
                               status_message, file_changed_externally,
                               root_refresh_pending, watcher_rx, index_rx, index_chan, pc>>
                /\ root_watcher_rx' = Queued(root_watcher_rx)
          /\ (disk' # disk /\ editor' = editor /\ editor # None) =>
                /\ UNCHANGED <<search, selected_index, search_input, mode, should_quit,
                               status_message, file_changed_externally, create_active,
                               root_refresh_pending, root_watcher_rx, index_rx,
                               index_chan, pc>>
                /\ watcher_rx' = Queued(watcher_rx)
          /\ (root_watcher_rx' # root_watcher_rx /\ root_watcher_rx' # Queued(root_watcher_rx))
                => (pc = "root" /\ pc' = "index")
          /\ (watcher_rx' # watcher_rx /\ watcher_rx' # Queued(watcher_rx))
                => \/ pc = "file" /\ pc' = "root"
                   \/ pc = "poll" /\ editor' # editor
          /\ (index_rx' # index_rx \/ Len(index_chan'.msgs) < Len(index_chan.msgs))
                => (pc = "index" /\ pc' = "refresh")
          /\ (\/ search' # search \/ selected_index' # selected_index
              \/ editor' # editor \/ mode' # mode
              \/ file_changed_externally' # file_changed_externally
              \/ root_refresh_pending' # root_refresh_pending
              \/ status_message' # status_message)
                => (pc = "poll" \/ pc' # pc)]_vars

\* C13 witness: in the middle of a tick, after its drains, every channel holds
\* what its producer sent meanwhile.
C13_Witness ==
    /\ pc = "refresh"
    /\ root_watcher_rx = Some(MaxSignals)
    /\ watcher_rx = Some(MaxSignals)
    /\ index_chan.msgs # <<>>
    /\ worker = "done"

\* C14 as the specification states it: no filesystem failure ends the loop.
\* App::run never returns an error: the loop never reaches the position where
\* a handler's error has been propagated out of run().
C14_NoFatalFsError == pc # "error"

\* C15: the root path is a member of the expanded set in every reachable
\* state.
C15_RootExpanded == RootPath \in search.expanded

\* C15 witness: directories have been expanded and one collapsed again, and
\* hidden files have been toggled off, with the root still expanded.
C15_Witness ==
    /\ RootPath \in search.expanded
    /\ PA \notin search.expanded
    /\ PA \in DOMAIN search.tree_nodes
    /\ search.tree_nodes[PA].children_loaded
    /\ PAH \in search.expanded
    /\ ~search.show_hidden

\* C16 as the specification states it: every full refresh is gated. A Tab
\* press, which always runs FileSearch::refresh, happens only with a
\* structural change pending, indexing clear and refresh_interval elapsed, and
\* clears the pending flag and resets the timer.
C16_EveryRefreshGated ==
    [][(search'.show_hidden # search.show_hidden) =>
          /\ root_refresh_pending /\ ~search.indexing
          /\ last_root_refresh_elapsed >= refresh_interval
          /\ ~root_refresh_pending'
          /\ last_root_refresh_elapsed' = 0]_vars

\* C16: gating of the tick's refresh. The end of a tick rescans exactly when
\* root_refresh_pending is set, indexing is clear and refresh_interval has
\* passed on the timer, and then clears the flag and resets the timer; the
\* timer is reset by nothing else and otherwise only runs, and the flag is
\* cleared by nothing else, so two successive tick refreshes are at least
\* refresh_interval apart. The refreshes of Tab and of create are immediate
\* and leave the flag and the timer as they are.
C16_TickRefreshGate ==
    [][/\ (pc = "refresh" /\ pc' = "poll") =>
             IF root_refresh_pending /\ ~search.indexing
                /\ last_root_refresh_elapsed >= refresh_interval
             THEN /\ search' = refresh_search(search, fs, search_input)
                  /\ ~root_refresh_pending'
                  /\ last_root_refresh_elapsed' = 0
             ELSE UNCHANGED <<search, root_refresh_pending, last_root_refresh_elapsed>>
       /\ (last_root_refresh_elapsed' # last_root_refresh_elapsed) =>
             \/ /\ pc = "refresh" /\ pc' = "poll"
                /\ last_root_refresh_elapsed >= refresh_interval
                /\ last_root_refresh_elapsed' = 0
             \/ /\ last_root_refresh_elapsed' = Age(last_root_refresh_elapsed, refresh_interval)
                /\ UNCHANGED <<search, pc, root_refresh_pending>>
       /\ (root_refresh_pending /\ ~root_refresh_pending') => pc = "refresh"
       /\ (search'.show_hidden # search.show_hidden \/ (create_active /\ ~create_active')) =>
             /\ pc = "poll"
             /\ UNCHANGED <<root_refresh_pending, last_root_refresh_elapsed>>]_vars

\* C16 witness: a tick refresh has just run right after the user's Tab had
\* already rescanned.
C16_Witness ==
    /\ pc = "poll"
    /\ last_root_refresh_elapsed = 0
    /\ last_tick_elapsed = 0
    /\ ~root_refresh_pending
    /\ index_rx = None
    /\ status_message = Some("Hidden files: HIDDEN")

\* C17: fixed drain order within a tick. The loop body moves from its poll
\* to the per-file drain, the root drain, the completion poll and the
\* conditional refresh, in this order, and back to the poll. Each channel is
\* drained at its own position only; a root signal drained sets
\* root_refresh_pending, which the completion poll leaves as it is; a result
\* applied at the completion poll leaves indexing clear; and the refresh that
\* follows decides on exactly these values.
C17_DrainOrder ==
    [][/\ (pc' # pc) =>
             \/ pc = "poll" /\ pc' \in {"file", "error", "panic", "done"}
             \/ pc = "file" /\ pc' = "root"
             \/ pc = "root" /\ pc' = "index"
             \/ pc = "index" /\ pc' = "refresh"
             \/ pc = "refresh" /\ pc' = "poll"
       /\ (pc = "file" /\ pc' = "root") =>
             /\ watcher_rx' \in {None, Some(0)} \/ editor = None
             /\ UNCHANGED <<search, root_watcher_rx, root_refresh_pending, index_rx,
                            index_chan, last_root_refresh_elapsed>>
       /\ (pc = "root" /\ pc' = "index") =>
             /\ root_watcher_rx' \in {None, Some(0)}
             /\ root_watcher_rx \notin {None, Some(0)} => root_refresh_pending'
             /\ UNCHANGED <<search, editor, watcher_rx, index_rx, index_chan,
                            last_root_refresh_elapsed>>
       /\ (pc = "index" /\ pc' = "refresh") =>
             /\ (index_rx # None /\ index_chan.msgs # <<>>) =>
                   /\ ~search'.indexing
                   /\ index_rx' = None
                   /\ Head(index_chan.msgs).ok => search'.files = Head(index_chan.msgs).files
             /\ UNCHANGED <<editor, watcher_rx, root_watcher_rx, root_refresh_pending,
                            last_root_refresh_elapsed>>
       /\ (pc = "refresh" /\ pc' = "poll") =>
             /\ (search' # search) =>
                   /\ root_refresh_pending /\ ~search.indexing
                   /\ search' = refresh_search(search, fs, search_input)
             /\ (root_refresh_pending /\ ~search.indexing
                 /\ last_root_refresh_elapsed >= refresh_interval) =>
                   /\ search'.files = collect_files(fs, search.show_hidden)
                   /\ ~root_refresh_pending'
             /\ UNCHANGED <<editor, watcher_rx, root_watcher_rx, index_rx, index_chan>>
       /\ (watcher_rx \notin {None, Some(0)} /\ watcher_rx' = Some(0) /\ editor' # None
           /\ editor # None) => pc = "file"
       /\ (root_watcher_rx \notin {None, Some(0)} /\ root_watcher_rx' = Some(0))
             => pc = "root"
       /\ (index_rx # None /\ index_rx' = None) => pc = "index"]_vars

\* C17 witness: at the refresh position of a tick whose drains reloaded the
\* open file, set root_refresh_pending and applied the background result.
C17_Witness ==
    /\ pc = "refresh"
    /\ editor # None
    /\ status_message = Some("File reloaded (external change)")
    /\ watcher_rx = Some(0)
    /\ root_watcher_rx = Some(0)
    /\ root_refresh_pending
    /\ index_rx = None
    /\ ~search.indexing
    /\ last_root_refresh_elapsed >= refresh_interval

C19_FailedReloadIntact ==
    [][(/\ pc = "file" /\ pc' # pc
        /\ editor # None
        /\ watcher_rx \notin {None, Some(0)}
        /\ ~is_modified(editor[1])
        /\ ~Readable(fs, editor[1].path)) =>
          /\ editor' = editor
          /\ file_changed_externally' = file_changed_externally
          /\ status_message' = Some("Reload failed")
          /\ pc' = "root"
          /\ UNCHANGED <<search, mode, selected_index, should_quit, root_refresh_pending>>]_vars

\* C19 witness: the tick has just failed to reload an open file that another
\* process rewrote and then removed.
C19_Witness ==
    /\ pc = "root"
    /\ editor # None
    /\ ~Readable(fs, editor[1].path)
    /\ status_message = Some("Reload failed")
    /\ watcher_rx = Some(0)
    /\ editor[1].original_content # <<>>

\* C20: per-file watcher isolation. A per-file receiver exists only while a
\* file is open; closing the editor drops it and clears the conflict flag;
\* opening a file starts with no receiver or an empty one and a clear flag; a
\* signal is added only by a rewrite of the file that is open now; and
\* check_file_changes reloads or flags only on a signal in the present
\* channel. So a signal dropped at a close reaches no file opened later.
C20_WatcherIsolation ==
    /\ [](/\ watcher_rx # None => (editor # None /\ mode = "Edit")
          /\ editor = None => ~file_changed_externally)
    /\ [][/\ (editor # None /\ editor' = None) =>
                (watcher_rx' = None /\ ~file_changed_externally')
          /\ (editor = None /\ editor' # None) =>
                (watcher_rx' \in {None, Some(0)} /\ ~file_changed_externally')
          /\ (watcher_rx' # watcher_rx /\ watcher_rx' = Queued(watcher_rx)) =>
                (editor # None /\ editor' = editor /\ disk' # disk)
          /\ (/\ pc = "file" /\ pc' = "root"
              /\ \/ editor' # editor
                 \/ file_changed_externally' # file_changed_externally) =>
                watcher_rx \notin {None, Some(0)}]_vars

\* C20 witness: a signal was dropped unread when the editor was closed, the
\* file has been opened again, and the tick's check has passed without a
\* reload and without a conflict flag.
C20_Witness ==
    /\ hist.discarded
    /\ editor # None
    /\ pc = "root"
    /\ watcher_rx = Some(0)
    /\ status_message = Some("File watcher active")
    /\ ~file_changed_externally

\* C21 as the specification states it: every successful rescan leaves the
\* pending flag clear. A Tab press (toggle_hidden, which rescans), a create
\* that rescans, and the application of the background result each end with
\* root_refresh_pending false.
C21_PendingClearedByAnyRescan ==
    [][(\/ search'.show_hidden # search.show_hidden
        \/ (create_active /\ ~create_active'
            /\ status_message' \in {Some("Created file"), Some("Created folder"),
                                    Some("File exists")})
        \/ (pc = "index" /\ pc' = "refresh" /\ index_rx # None /\ index_rx' = None
            /\ search'.files = Head(index_chan.msgs).files /\ index_chan.msgs # <<>>))
          => ~root_refresh_pending']_vars

\* C22 as the specification states it: while show_hidden is false, no path of
\* the flat index and no row of tree_visible has a dot-prefixed component.
C22_HiddenFlagInvariant ==
    (~search.show_hidden) =>
        /\ \A i \in 1..Len(search.files) : ~HasDotComponent(search.files[i])
        /\ \A i \in 1..Len(search.tree_visible) :
              ~HasDotComponent(search.tree_visible[i].path)

\* C23 as the specification states it: after reload_children(p), the node of
\* every child listed for p has is_dir equal to the type the listing reports
\* for it, whether or not a node for the child existed before.
C23_ReloadUpdatesChildren ==
    \A p \in DOMAIN search.tree_nodes :
        LET nodes == reload_children(search.tree_nodes, fs, p, search.show_hidden)
        IN  \A i \in 1..Len(nodes[p].children) :
               LET c == nodes[p].children[i]
               IN  nodes[c].is_dir = (fs[c] = "dir")

\* C24: a full refresh rewrites the node of the root and of every expanded path
\* from a fresh listing and leaves every other existing node as it was; toggling
\* a collapsed, loaded directory afterwards does not read the directory: the
\* result is the same on an emptied filesystem, and the node map is untouched.
C24_RefreshReloadsExpandedOnly ==
    LET after == refresh(search, fs)
        reloaded == search.expanded \cup {RootPath}
        NoFs == [p \in Universe |-> "none"]
    IN  /\ \A p \in reloaded :
            /\ p \in DOMAIN after.tree_nodes
            /\ after.tree_nodes[p] =
                   TreeNode(TRUE, SortChildren(fs, ListChildren(fs, p, search.show_hidden)), TRUE)
        /\ \A p \in DOMAIN search.tree_nodes \ reloaded :
            /\ after.tree_nodes[p] = search.tree_nodes[p]
            /\ search.tree_nodes[p].children_loaded =>
                  /\ toggle_expanded(after, fs, p) = toggle_expanded(after, NoFs, p)
                  /\ toggle_expanded(after, fs, p).tree_nodes = after.tree_nodes

\* A refresh has run, and a collapsed directory holds children cached from an
\* older listing that the next refresh would not touch.
C24_Witness ==
    /\ ~search.indexing
    /\ \E p \in DOMAIN search.tree_nodes \ (search.expanded \cup {RootPath}) :
          /\ search.tree_nodes[p].is_dir
          /\ search.tree_nodes[p].children_loaded
          /\ search.tree_nodes[p].children
                # SortChildren(fs, ListChildren(fs, p, search.show_hidden))
          /\ refresh(search, fs).tree_nodes[p] = search.tree_nodes[p]

\* C25: in every reachable state a node that is not loaded has no children, and
\* a node that is not a directory is loaded and has no children.
C25_NodeShape ==
    \A p \in DOMAIN search.tree_nodes :
        LET node == search.tree_nodes[p]
        IN  /\ ~node.children_loaded => node.children = <<>>
            /\ ~node.is_dir => node.children_loaded /\ node.children = <<>>

\* The map holds a file node, a directory node never listed, and a directory
\* node other than the root that was listed with children.
C25_Witness ==
    /\ \E p \in DOMAIN search.tree_nodes : ~search.tree_nodes[p].is_dir
    /\ \E p \in DOMAIN search.tree_nodes :
          search.tree_nodes[p].is_dir /\ ~search.tree_nodes[p].children_loaded
    /\ \E p \in DOMAIN search.tree_nodes \ {RootPath} :
          /\ search.tree_nodes[p].is_dir
          /\ search.tree_nodes[p].children_loaded
          /\ search.tree_nodes[p].children # <<>>

\* C26: in every state between handlers, each path of the expanded set, the
\* root included, has a node in the map whose children are loaded.
C26_ExpandedLoaded ==
    \A p \in search.expanded :
        p \in DOMAIN search.tree_nodes /\ search.tree_nodes[p].children_loaded

\* A directory other than the root is expanded and is no longer a directory on
\* disk, after a refresh has run.
C26_Witness ==
    /\ ~search.indexing
    /\ \E p \in search.expanded \ {RootPath} :
          /\ fs[p] # "dir"
          /\ p \in DOMAIN search.tree_nodes
          /\ search.tree_nodes[p].children_loaded

\* C27: no step removes a key from the TreeNode map; a step changes an existing
\* node only if it reloaded that node's own path (the root and the expanded
\* paths on a refresh, the newly expanded path on a toggle); and a reload of
\* one path leaves every other existing node as it was.
C27_NodeLifetime ==
    [][/\ DOMAIN search.tree_nodes \subseteq DOMAIN search'.tree_nodes
       /\ \A q \in DOMAIN search.tree_nodes :
             search'.tree_nodes[q] # search.tree_nodes[q]
                => q \in search'.expanded \cup {RootPath}
       /\ \A p \in DOMAIN search.tree_nodes : \A q \in DOMAIN search.tree_nodes \ {p} :
             reload_children(search.tree_nodes, fs, p, search.show_hidden)[q]
                = search.tree_nodes[q]]_vars

\* The directory a was listed while it held a/.h, and was reloaded after a/.h
\* was removed: a's children no longer name a/.h, whose node is still in the map.
C27_Witness ==
    /\ PA \in DOMAIN search.tree_nodes
    /\ PAH \in DOMAIN search.tree_nodes
    /\ fs[PAH] = "none"
    /\ search.show_hidden
    /\ search.tree_nodes[PA].children_loaded
    /\ \A i \in 1..Len(search.tree_nodes[PA].children) :
          search.tree_nodes[PA].children[i] # PAH

\* C28: refresh, toggle_hidden, apply_index and update_query return the expanded
\* set they were given; toggle_expanded(p) adds p if absent and removes it if
\* present, nothing else; and a step that rescans, flips the hidden flag or
\* belongs to a tick leaves the expanded set as it was, while any step that
\* changes it changes the membership of a single path.
C28_ExpandedFrame ==
    [][/\ refresh(search, fs).expanded = search.expanded
       /\ toggle_hidden(search, fs).expanded = search.expanded
       /\ apply_index(search, collect_files(fs, search.show_hidden)).expanded = search.expanded
       /\ update_query(search, search_input).expanded = search.expanded
       /\ \A p \in Universe :
             toggle_expanded(search, fs, p).expanded
                = IF p \in search.expanded THEN search.expanded \ {p}
                  ELSE search.expanded \cup {p}
       /\ (\/ search'.files # search.files
           \/ search'.show_hidden # search.show_hidden
           \/ search'.matches # search.matches
           \/ pc' # pc)
             => search'.expanded = search.expanded
       /\ search'.expanded # search.expanded
             => \E p \in Universe :
                   /\ search' = toggle_expanded(search, fs, p)
                   /\ search'.expanded \in {search.expanded \ {p}, search.expanded \cup {p}}]_vars

\* An expanded directory was removed from disk and a refresh has reloaded the
\* root since: the root's children no longer name it, and it is still expanded.
C28_Witness ==
    /\ ~search.indexing
    /\ \E p \in search.expanded \ {RootPath} :
          /\ fs[p] = "none"
          /\ Len(p) = 1
          /\ \A i \in 1..Len(search.tree_nodes[RootPath].children) :
                search.tree_nodes[RootPath].children[i] # p

\* C29: for every expanded directory p other than the root, collapsing p keeps
\* the TreeNode map and the row of p and removes from the visible sequence
\* exactly the rows below p; expanding p again on the same filesystem restores
\* the expanded set, the visible sequence and the map.
C29_CollapseExpandRoundTrip ==
    \A p \in search.expanded \ {RootPath} :
        LET collapsed == toggle_expanded(search, fs, p)
            again == toggle_expanded(collapsed, fs, p)
        IN  /\ collapsed.tree_nodes = search.tree_nodes
            /\ collapsed.expanded = search.expanded \ {p}
            /\ collapsed.tree_visible
                   = SelectSeq(search.tree_visible, LAMBDA e : ~IsProperPrefix(p, e.path))
            /\ again.expanded = search.expanded
            /\ again.tree_visible = search.tree_visible
            /\ again.tree_nodes = search.tree_nodes

\* An expanded directory shows rows below it that come from a listing older
\* than the directory's present content.
C29_Witness ==
    \E p \in search.expanded \ {RootPath} :
        /\ \E i \in 1..Len(search.tree_visible) : search.tree_visible[i].path = p
        /\ \E i \in 1..Len(search.tree_visible) : IsProperPrefix(p, search.tree_visible[i].path)
        /\ search.tree_nodes[p].children
              # SortChildren(fs, ListChildren(fs, p, search.show_hidden))
        /\ toggle_expanded(toggle_expanded(search, fs, p), fs, p).tree_visible
              = search.tree_visible

\* C30: the flat index is strictly ascending in every state and is either empty
\* (nothing scanned yet) or the complete result of one scan of a tree the
\* directory has had; a scan result is ascending and names plain files only;
\* refresh and apply_index store the scan result they are given as a whole; and
\* a step that changes the index stores the scan of the tree after the step or
\* the result at the head of the completion channel.
C30_FlatIndexWholesale ==
    [][LET Ascending(files) == \A i \in 1..(Len(files) - 1) : PathLess(files[i], files[i + 1])
           Trees == {[fs EXCEPT ![PB] = k] : k \in {"none", "file"}}
           Scans == {collect_files(f, h) : f \in Trees, h \in BOOLEAN}
           scan == collect_files(fs, search.show_hidden)
       IN  /\ Ascending(search.files)
           /\ search.files \in Scans \cup {<<>>}
           /\ Ascending(scan)
           /\ \A i \in 1..Len(scan) : fs[scan[i]] = "file"
           /\ refresh(search, fs).files = scan
           /\ apply_index(search, scan).files = scan
           /\ \A i \in 1..Len(index_chan.msgs) :
                 index_chan.msgs[i].ok => index_chan.msgs[i].files \in Scans
           /\ search'.files # search.files =>
                 \/ search'.files = collect_files(fs', search'.show_hidden)
                 \/ /\ pc = "index"
                    /\ index_chan.msgs # <<>>
                    /\ search'.files = Head(index_chan.msgs).files]_vars

\* The background result has been applied and the index holds several files of
\* a scan that differs from the scan of the present tree.
C30_Witness ==
    /\ index_rx = None
    /\ Len(search.files) >= 2
    /\ search.files # collect_files(fs, search.show_hidden)
    /\ hist.completions >= 1

\* C31: in the flattened visible sequence no path occurs twice; the depth of an
\* entry is the number of its path components minus one; and an entry of depth
\* d > 0 comes after an entry of depth d - 1, the nearest such entry before it
\* is its parent directory, and that directory is in the expanded set.
C31_VisibleShape ==
    LET v == search.tree_visible
    IN  /\ \A i, j \in 1..Len(v) : v[i].path = v[j].path => i = j
        /\ \A i \in 1..Len(v) : v[i].depth = Len(v[i].path) - 1
        /\ \A i \in 1..Len(v) :
              v[i].depth > 0 =>
                 \E j \in 1..(i - 1) :
                    /\ v[j].depth = v[i].depth - 1
                    /\ \A k \in (j + 1)..(i - 1) : v[k].depth # v[i].depth - 1
                    /\ v[j].path = SubSeq(v[i].path, 1, Len(v[i].path) - 1)
                    /\ v[j].is_dir
                    /\ v[j].path \in search.expanded

\* A row of depth 2 is shown and a row of lesser depth follows it.
C31_Witness ==
    \E i \in 1..Len(search.tree_visible) :
        /\ search.tree_visible[i].depth = 2
        /\ \E j \in (i + 1)..Len(search.tree_visible) : search.tree_visible[j].depth < 2

\* C32 as the specification states it: a scan in which some subdirectories
\* cannot be read succeeds and omits what lies below them, and a scan whose
\* root cannot be read returns an error, not a successful empty result.
C32_WalkerFailureContract ==
    \A unreadable \in SUBSET ({RootPath} \cup {p \in Universe : fs[p] = "dir"}) :
        LET r == collect_files_result(fs, search.show_hidden, unreadable)
        IN  IF RootPath \in unreadable
            THEN ~r.ok
            ELSE /\ r.ok
                 /\ \A p \in Universe :
                       (\E i \in 1..Len(r.files) : r.files[i] = p)
                          <=> /\ \E i \in 1..Len(collect_files(fs, search.show_hidden)) :
                                    collect_files(fs, search.show_hidden)[i] = p
                              /\ \A d \in unreadable : ~IsProperPrefix(d, p)

\* C33: between handlers, search_active is true exactly when the query is not
\* empty, and the match list is what update_query gives for the present query
\* on the present flat index: the identity list with score 0 for the empty
\* query, otherwise one pair for each file the matcher scores and none for
\* the others.
C33_MatchesFollowQuery ==
    /\ search.search_active <=> search_input # <<>>
    /\ search.matches = update_query(search, search_input).matches
    /\ search_input = <<>> => search.matches = IdentityMatches(search.files)
    /\ search_input # <<>> =>
          /\ \A i \in 1..Len(search.matches) :
                search.matches[i][1] \in 0..(Len(search.files) - 1)
          /\ \A k \in 1..Len(search.files) :
                Cardinality({i \in 1..Len(search.matches) : search.matches[i][1] = k - 1})
                   = IF fuzzy_match(PathStr(search.files[k]), search_input) = None
                     THEN 0 ELSE 1

\* A query is typed that matches some files and not others, the background
\* result has been applied and hidden files were switched off.
C33_Witness ==
    /\ search_input # <<>>
    /\ index_rx = None
    /\ hist.completions >= 1
    /\ ~search.show_hidden
    /\ search.matches # <<>>
    /\ Len(search.matches) < Len(search.files)

\* C34: between handlers the selection is a row of the list on screen:
\* selected_index is below match_count(), or is 0 when the list is empty.
C34_SelectionInRange ==
    IF match_count(search) = 0 THEN selected_index = 0
    ELSE selected_index < match_count(search)

\* A query is typed, the last of several matches is selected, and the index was
\* rescanned after b was removed from disk.
C34_Witness ==
    /\ search_input # <<>>
    /\ selected_index > 0
    /\ selected_index = match_count(search) - 1
    /\ fs[PB] = "none"
    /\ \A i \in 1..Len(search.files) : search.files[i] # PB
    /\ hist.completions >= 1

\* C35: every index in the match list is below the length of the flat index, in
\* every state and also in the FileSearch that refresh and apply_index leave
\* before update_query runs, given a scan shorter than the present index.
C35_MatchIndexesValid ==
    LET Valid(s) == \A i \in 1..Len(s.matches) :
                       s.matches[i][1] >= 0 /\ s.matches[i][1] < Len(s.files)
    IN  /\ Valid(search)
        /\ Valid(refresh(search, fs))
        /\ Valid(toggle_hidden(search, fs))
        /\ \A h \in BOOLEAN : Valid(apply_index(search, collect_files(fs, h)))
        /\ Valid(apply_index(search, <<>>))
        /\ Valid(update_query(search, search_input))

\* A query is typed and its matches include the last file of an index that is
\* shorter than a scan with hidden files would be.
C35_Witness ==
    /\ search_input # <<>>
    /\ search.search_active
    /\ Len(search.files) < Len(collect_files(fs, TRUE))
    /\ \E i \in 1..Len(search.matches) : search.matches[i][1] = Len(search.files) - 1
    /\ index_rx = None

\* C36: indexing is true in the initial state; while it is true the driver
\* still holds the completion channel; once false it stays false; it turns
\* false only in a step that consumes the completion or stores a fresh scan;
\* and refresh and apply_index return it false while update_query and
\* toggle_expanded return it as they found it.
C36_IndexingMonotone ==
    /\ search.indexing
    /\ [](search.indexing => index_rx # None)
    /\ [][/\ ~search.indexing => ~search'.indexing
          /\ (search.indexing /\ ~search'.indexing) =>
                \/ index_rx' = None
                \/ search'.files = collect_files(fs', search'.show_hidden)
          /\ ~refresh(search, fs).indexing
          /\ ~apply_index(search, collect_files(fs, TRUE)).indexing
          /\ update_query(search, search_input).indexing = search.indexing
          /\ \A p \in DOMAIN search.tree_nodes :
                toggle_expanded(search, fs, p).indexing = search.indexing]_vars

\* A rescan has cleared the flag while the background completion is still to
\* be consumed, and a structural refresh is pending.
C36_Witness ==
    /\ ~search.indexing
    /\ index_rx # None
    /\ root_refresh_pending
    /\ hist.completions = 0

\* C37: between handlers the mode is Edit exactly when an editor is open, the
\* per-file channel is held only while an editor is open, and
\* file_changed_externally is set only while an editor is open; a step that
\* opens an editor and a step that closes it both leave file_changed_externally
\* false, and the closing step drops the per-file channel.
C37_ModeEditorCoupled ==
    /\ [](/\ mode = "Edit" <=> editor # None
          /\ watcher_rx # None => editor # None
          /\ file_changed_externally => editor # None)
    /\ [][/\ (editor = None /\ editor' # None) =>
                ~file_changed_externally' /\ mode' = "Edit"
          /\ (editor # None /\ editor' = None) =>
                ~file_changed_externally' /\ watcher_rx' = None /\ mode' = "Search"]_vars

\* An editor is open in Edit mode with its watcher, and an external change to
\* the file is flagged over unsaved edits.
C37_Witness ==
    /\ editor # None
    /\ mode = "Edit"
    /\ watcher_rx # None
    /\ file_changed_externally
    /\ is_modified(editor[1])

====
